---- MODULE Spec2Model ----
(***************************************************************************)
(* Model of the document-analysis pipeline (POST /api/analyze with its     *)
(* rate limiter, result cache and Gemini client) and of the document       *)
(* metadata endpoints of the Devvit document manager.                      *)
(*                                                                         *)
(* Text (error messages, summaries, descriptions) is a sequence of         *)
(* symbols; String.includes is contiguous sub-sequence search and          *)
(* toLowerCase maps every symbol to its lower-case form.                   *)
(***************************************************************************)
EXTENDS Integers, Sequences, FiniteSets, TLC

----------------------------------------------------------------------------
(* Bounds of the model *)

\* number of /api/analyze requests the server handles at the same time
NumSlots == 2
\* total number of /api/analyze requests that reach the quota check in one behaviour
MaxRequests == 4
\* the same, for the runs with concurrent requests
MaxConcRequests == 3
\* the daily quota: index.ts:519 sets 100, the model scales it down
RATE_LIMIT == 2

(* Program constants *)
MAX_RETRIES == 2
DESC_MAX == 100
SUMMARY_MAX == 500

Slots == 1..NumSlots
Users == {"alice", "bob"}
NoUser == "none"
\* redis.get of an absent key, and a result not yet computed
NoResult == [description |-> <<>>, summary |-> <<>>]

----------------------------------------------------------------------------
(* Text helpers *)

\* String.prototype.includes on symbol sequences
Includes(hay, needle) ==
  \E i \in 1..(Len(hay) - Len(needle) + 1) :
     SubSeq(hay, i, i + Len(needle) - 1) = needle

\* String.prototype.toLowerCase, per symbol
LowerSym(t) ==
  CASE t = "API" -> "api"
    [] t = "Gemini" -> "gemini"
    [] t = "Invalid" -> "invalid"
    [] t = "Service" -> "service"
    [] t = "Unavailable" -> "unavailable"
    [] t = "Internal" -> "internal"
    [] t = "Server" -> "server"
    [] t = "Error" -> "error"
    [] t = "Bad" -> "bad"
    [] t = "Gateway" -> "gateway"
    [] t = "Timeout" -> "timeout"
    [] t = "Too" -> "too"
    [] t = "Many" -> "many"
    [] t = "Requests" -> "requests"
    [] t = "Request" -> "request"
    [] t = "Unauthorized" -> "unauthorized"
    [] t = "ECONNRESET" -> "econnreset"
    [] t = "ECONNREFUSED" -> "econnrefused"
    [] t = "Candidate" -> "candidate"
    [] t = "SAFETY" -> "safety"
    [] t = "Deadline" -> "deadline"
    [] t = "Redis" -> "redis"
    [] OTHER -> t

toLowerCase(text) == [i \in 1..Len(text) |-> LowerSym(text[i])]

\* String.prototype.substring(0, n)
Substring0(text, n) == IF Len(text) <= n THEN text ELSE SubSeq(text, 1, n)

----------------------------------------------------------------------------
(* gemini.ts: pure functions *)

\* control characters removed by sanitizeText: [\x00-\x08\x0B-\x0C\x0E-\x1F\x7F];
\* "<NL>" (\n) and "<TAB>" (\t) are kept
ControlSyms == {"<NUL>", "<BEL>", "<ESC>", "<DEL>"}

sanitizeText(text) == SelectSeq(text, LAMBDA c : c \notin ControlSyms)

FallbackSummary ==
  <<"Auto-analysis", "unavailable", ".", "Please", "add", "details", "manually", ".">>

\* `${fileTypeLabel} - ${fileName}`, character by character: the file name is a
\* sequence of characters and goes into the description whole
fileTypeLabel(fileType) ==
  IF fileType = "pdf" THEN <<"P", "D", "F">> ELSE <<"I", "m", "a", "g", "e">>

createFallbackResponse(fileName, fileType) ==
  [description |-> fileTypeLabel(fileType) \o <<" ", "-", " ">> \o fileName,
   summary |-> FallbackSummary]

\* The raw model output, as far as parseGeminiResponse looks at it: whether the
\* (fence-stripped) text is JSON at all, which of the two fields the parsed object
\* has, and their values.
ModelTexts ==
  { [json |-> TRUE, fields |-> {"description", "summary"},
       description |-> <<"Receipt">>, summary |-> <<"Total", "42">>],
    [json |-> TRUE, fields |-> {"description", "summary"},
       description |-> <<"Invoice", "<BEL>">>, summary |-> <<"Due", "<NL>", "May">>],
    [json |-> TRUE, fields |-> {"description", "summary"},
       description |-> <<"Blank", "form">>,
       summary |-> <<"Form", "says", "Please", "add", "details", "manually">>],
    [json |-> FALSE, fields |-> {}, description |-> <<>>, summary |-> <<>>],
    [json |-> TRUE, fields |-> {"summary"},
       description |-> <<>>, summary |-> <<"Total", "42">>],
    [json |-> TRUE, fields |-> {"description", "summary"},
       description |-> <<"Receipt">>, summary |-> <<>>] }

InvalidResponseMessage == <<"Invalid", "response", "format", "from", "Gemini", "API">>

\* !parsed.description: the field is absent or the empty string
Falsy(text, f) == f \notin text.fields \/ text[f] = <<>>

\* a validator that fills in a missing field instead of raising
parseGeminiResponseLenient(text) ==
  IF ~text.json
  THEN [ok |-> FALSE, error |-> InvalidResponseMessage,
        value |-> [description |-> <<>>, summary |-> <<>>]]
  ELSE [ok |-> TRUE, error |-> <<>>,
        value |-> [description |-> IF Falsy(text, "description") THEN <<"Untitled">>
                                   ELSE sanitizeText(Substring0(text.description, DESC_MAX)),
                   summary |-> IF Falsy(text, "summary") THEN <<"No", "summary">>
                               ELSE sanitizeText(Substring0(text.summary, SUMMARY_MAX))]]

parseGeminiResponse(text) ==
  IF ~text.json \/ Falsy(text, "description") \/ Falsy(text, "summary")
  THEN [ok |-> FALSE, error |-> InvalidResponseMessage,
        value |-> [description |-> <<>>, summary |-> <<>>]]
  ELSE [ok |-> TRUE, error |-> <<>>,
        value |-> [description |-> sanitizeText(Substring0(text.description, DESC_MAX)),
                   summary |-> sanitizeText(Substring0(text.summary, SUMMARY_MAX))]]

\* a pattern list under which an expired timer is final
retryablePatternsNoTimeout ==
  { <<"network">>, <<"econnreset">>, <<"econnrefused">>, <<"etimedout">>,
    <<"socket", "hang", "up">>, <<"503">>, <<"429">>, <<"temporarily", "unavailable">> }

\* the pattern list without the provider's rate-limit response
retryablePatternsNo429 ==
  { <<"timeout">>, <<"network">>, <<"econnreset">>, <<"econnrefused">>, <<"etimedout">>,
    <<"socket", "hang", "up">>, <<"503">>, <<"temporarily", "unavailable">> }

retryablePatterns ==
  { <<"timeout">>, <<"network">>, <<"econnreset">>, <<"econnrefused">>, <<"etimedout">>,
    <<"socket", "hang", "up">>, <<"503">>, <<"429">>, <<"temporarily", "unavailable">> }

isRetryableError(message) ==
  \E pattern \in retryablePatterns : Includes(toLowerCase(message), pattern)

\* a schedule that starts one doubling late
backoffMsOffByOne(retryCount) == (2 ^ (retryCount + 1)) * 1000

\* Math.pow(2, retryCount) * 1000
backoffMs(retryCount) == (2 ^ retryCount) * 1000

\* detectFileType, on the request's fileType and the data-URI prefix of fileData
detectFileType(fileData, fileType) ==
  LET normalizedType == toLowerCase(fileType) IN
  IF Includes(normalizedType, <<"pdf">>) THEN "pdf"
  ELSE IF \E w \in {"image", "jpeg", "jpg", "png", "gif", "webp"} :
            Includes(normalizedType, <<w>>) THEN "image"
  ELSE IF fileData.prefix = <<"data:", "application", "/", "pdf">> THEN "pdf"
  ELSE "image"

\* What a generateContent call raced against the 5 s timer can raise: the kind
\* of failure and the message of the Error that reaches the catch block.
ApiErrors ==
  { [kind |-> "timeout",     message |-> <<"API", "timeout">>],
    [kind |-> "connreset",   message |-> <<"read", "ECONNRESET">>],
    [kind |-> "connrefused", message |-> <<"connect", "ECONNREFUSED">>],
    [kind |-> "http500",     message |-> <<"500", "Internal", "Server", "Error">>],
    [kind |-> "http502",     message |-> <<"502", "Bad", "Gateway">>],
    [kind |-> "http503",     message |-> <<"503", "Service", "Unavailable">>],
    [kind |-> "http504",     message |-> <<"504", "Gateway", "Timeout">>],
    [kind |-> "http504h2",   message |-> <<"504", "Deadline", "expired">>],
    [kind |-> "http429",     message |-> <<"429", "Too", "Many", "Requests">>],
    [kind |-> "http400",     message |-> <<"400", "Bad", "Request">>],
    [kind |-> "http401",     message |-> <<"401", "Unauthorized">>],
    [kind |-> "blocked",     message |-> <<"Candidate", "was", "blocked", "due", "to", "SAFETY">>] }

\* getModel: throw new Error('Gemini API key not configured')
NoKeyMessage == <<"Gemini", "API", "key", "not", "configured">>

----------------------------------------------------------------------------
(* index.ts: helpers of POST /api/analyze *)

\* Buffer.from(base64Data, 'base64'): characters outside the alphabet are skipped
DecodeBase64(payload) ==
  CASE payload = "QUJD" -> "ABC"
    [] payload = "QUJD\n" -> "ABC"
    [] payload = "WFla" -> "XYZ"
    [] OTHER -> ""

\* crypto.createHash('md5').update(buffer).digest('hex')
md5(bytes) ==
  CASE bytes = "ABC" -> "902fbdd2b1df0c4f70b4a5d23525e932"
    [] bytes = "XYZ" -> "e65075d550f9b5bf9992fa1d71a131be"
    [] OTHER -> "d41d8cd98f00b204e9800998ecf8427e"

Hashes == {md5("ABC"), md5("XYZ")}

\* request bodies: fileData is absent, or a base64 payload behind an optional data-URI prefix
NoPrefix == <<>>
PdfPrefix == <<"data:", "application", "/", "pdf">>
Bodies ==
  { [fileData |-> [present |-> TRUE, prefix |-> NoPrefix, payload |-> "QUJD"],
     fileType |-> <<"image", "/", "png">>, fileName |-> <<"a", ".", "p", "n", "g">>],
    [fileData |-> [present |-> TRUE, prefix |-> PdfPrefix, payload |-> "QUJD\n"],
     fileType |-> <<"application", "/", "pdf">>, fileName |-> <<"b", ".", "p", "d", "f">>],
    [fileData |-> [present |-> TRUE, prefix |-> NoPrefix, payload |-> "WFla"],
     fileType |-> <<"image", "/", "png">>, fileName |-> <<"c", ".", "p", "n", "g">>],
    [fileData |-> [present |-> FALSE, prefix |-> NoPrefix, payload |-> ""],
     fileType |-> <<"image", "/", "png">>, fileName |-> <<"d", ".", "p", "n", "g">>] }
NoBody == [fileData |-> [present |-> FALSE, prefix |-> NoPrefix, payload |-> ""],
           fileType |-> <<>>, fileName |-> <<>>]

\* the 400 checks: !fileData, !fileType, !fileName, !base64Data
ValidBody(b) ==
  /\ b.fileData.present
  /\ b.fileType # <<>>
  /\ b.fileName # <<>>
  /\ b.fileData.payload # ""

\* a key that depends on the declared file type as well as on the bytes
cacheKeyByType(b) ==
  IF Includes(toLowerCase(b.fileType), <<"pdf">>) THEN md5("XYZ")
  ELSE md5(DecodeBase64(b.fileData.payload))

\* fileHash = md5 of Buffer.from(base64Data, 'base64'); cacheKey = `analysis:${fileHash}`
cacheKeyOf(b) == md5(DecodeBase64(b.fileData.payload))

\* a limit check that lets the request at count = RATE_LIMIT through
OverLimitOffByOne(count) == count > RATE_LIMIT

\* count >= RATE_LIMIT
OverLimit(count) == count >= RATE_LIMIT

\* a fallback test that looks for a sentence createFallbackResponse does not write
isFallbackWrongPhrase(analysis) ==
  Includes(analysis.summary, <<"Analysis", "unavailable">>)

\* analysis.summary.includes('Auto-analysis unavailable') ||
\* analysis.summary.includes('Please add details manually')
isFallback(analysis) ==
  \/ Includes(analysis.summary, <<"Auto-analysis", "unavailable">>)
  \/ Includes(analysis.summary, <<"Please", "add", "details", "manually">>)

\* messages of a failed Redis command
RedisErrors == { <<"Redis", "connection", "closed">>, <<"Redis", "command", "timeout">> }

\* the catch block of /api/analyze: status code from the error message
ErrorStatus(message) ==
  LET errorMsg == toLowerCase(message) IN
  IF Includes(errorMsg, <<"api", "key", "not", "configured">>) THEN 503
  ELSE IF Includes(errorMsg, <<"timeout">>) THEN 504
  ELSE IF Includes(errorMsg, <<"invalid", "response">>) THEN 502
  ELSE IF Includes(errorMsg, <<"gemini">>) \/ Includes(errorMsg, <<"api">>) THEN 503
  ELSE 500

----------------------------------------------------------------------------
(* State *)

VARIABLES
  req,       \* per handler slot: the locals of one /api/analyze invocation
  obs,       \* per handler slot: what the invocation has done so far (history)
  rlCount,   \* Redis ratelimit:analysis:{username}:{today}
  rlTtl,     \* whether that counter key carries an expiry
  cache,     \* Redis analysis:{md5}
  cacheTtl,  \* whether that cache key carries an expiry
  apiKey,    \* whether Redis config:gemini_api_key is set
  hist,      \* history over all requests
  docs,      \* Redis docs:{postId}:list, newest first
  store,     \* the storage keys each external backend holds
  provider,  \* the backend StorageFactory is configured for
  dh,        \* per handler slot: the locals of one /api/documents request
  dhist,     \* history over all /api/documents requests
  adapters,  \* per backend: the adapter object's fields
  sres,      \* outcome of the latest adapter operation
  skeys,     \* per backend and storage key: what has happened to the key
  factory,   \* StorageFactory.instance and StorageFactory.config
  fres,      \* outcome of the latest StorageFactory call
  fhist,     \* history of StorageFactory since the last reset()
  pin,       \* the text handed to parseGeminiResponse, or the file name of a fallback
  pout,      \* the analysis made from it
  clock,     \* the current instant, in hours since the epoch (UTC)
  tz,        \* the server's local time zone, as an offset in hours from UTC
  quota,     \* Redis ratelimit:analysis:{username}:{date}: count and expiry
  qreq,      \* the locals of the quota section of one /api/analyze request
  qhist,     \* history of the quota section over all requests
  audit,     \* PostgreSQL document_storage: access_count and accessed_at of each row
  sh,        \* per handler slot: the locals of one /api/documents/stream request
  shist      \* history over all /api/documents/stream requests

analyzeVars == <<req, obs, rlCount, rlTtl, cache, cacheTtl, apiKey, hist>>
docVars == <<docs, store, provider, dh, dhist>>
storageVars == <<adapters, sres, skeys>>
factoryVars == <<factory, fres, fhist>>
parseVars == <<pin, pout>>
quotaVars == <<clock, tz, quota, qreq, qhist>>
streamVars == <<audit, sh, shist>>
vars == <<analyzeVars, docVars, storageVars, factoryVars, parseVars, quotaVars, streamVars>>

\* what the handlers of /api/analyze leave alone
notAnalyzeVars == <<docVars, storageVars, factoryVars, parseVars, quotaVars, streamVars>>
\* what the handlers of /api/documents leave alone
notDocVars == <<analyzeVars, storageVars, factoryVars, parseVars, quotaVars, streamVars>>
\* what the adapters leave alone, the metadata list apart
notStorageVars == <<analyzeVars, factoryVars, parseVars, quotaVars, streamVars>>

IdleReq == [pc |-> "idle", user |-> NoUser, body |-> NoBody, retryCount |-> 0,
            result |-> NoResult, status |-> 0]

IdleObs == [checked |-> FALSE, incrs |-> 0, cacheReads |-> 0, cacheWrites |-> 0,
            invoked |-> 0, calls |-> 0, waits |-> <<>>, src |-> "none",
            lastErr |-> "none", retryable |-> FALSE, redisFailed |-> FALSE,
            prior |-> NoResult, abandoned |-> 0, late |-> 0, log |-> <<>>]

InitAnalyze ==
  /\ req = [s \in Slots |-> IdleReq]
  /\ obs = [s \in Slots |-> IdleObs]
  /\ rlCount = [u \in Users |-> 0]
  /\ rlTtl = [u \in Users |-> FALSE]
  /\ cache = [h \in Hashes |-> NoResult]
  /\ cacheTtl = [h \in Hashes |-> FALSE]
  /\ apiKey = FALSE
  /\ hist = [cacheSrc |-> [h \in Hashes |-> "none"],
             lastGood |-> [h \in Hashes |-> NoResult],
             nChecked |-> [u \in Users |-> 0],
             aiSucceeded |-> FALSE,
             redisFault |-> FALSE]

\* The log of a request holds the records written by analyzeDocument,
\* initializeGeminiClient, analyzeImage / analyzePDF, parseGeminiResponse and
\* createFallbackResponse, in the order they are written.
\* logger.info / warn / error / performance: one JSON record on the console,
\* with timestamp, level, message (or operation) and the metadata given;
\* `number` is the value of its retryCount or attempt field, 0 when it has none
LogEntry(level, message, fields, number) ==
  [level |-> level, message |-> message, fields |-> {"timestamp", "level"} \cup fields,
   number |-> number]

\* analyzeDocument: 'Starting document analysis', 'File type detected'
StartEntries ==
  << LogEntry("INFO", <<"Starting document analysis">>,
              {"message", "requestId", "fileName", "fileType", "dataLength"}, 0),
     LogEntry("INFO", <<"File type detected">>,
              {"message", "requestId", "detectedType", "providedType"}, 0) >>

\* initializeGeminiClient
ClientReadyEntry == LogEntry("INFO", <<"Client initialized successfully">>, {"message"}, 0)
KeyMissingEntry == LogEntry("WARN", <<"API key not configured in Redis">>, {"message"}, 0)
InitFailedEntry ==
  LogEntry("ERROR", <<"Failed to initialize client">>, {"message", "error", "stack"}, 0)

\* analyzeImage logs the response object and its text; analyzePDF does not
ResponseEntries(detectedType) ==
  IF detectedType = "image"
  THEN << LogEntry("INFO", <<"Full API response object">>,
                   {"message", "candidates", "promptFeedback", "firstCandidate", "fileName"}, 0),
          LogEntry("INFO", <<"Raw API response text">>,
                   {"message", "textLength", "textPreview", "hasText", "fileName"}, 0) >>
  ELSE <<>>

\* logger.info('Image analysis successful' / 'PDF analysis successful', {retryCount, ...})
SucceededEntry(detectedType, retryCount) ==
  LogEntry("INFO", <<detectedType, "analysis successful">>,
           {"message", "descriptionLength", "summaryLength", "retryCount", "fileName"},
           retryCount)

\* logger.error('Image analysis failed' / 'PDF analysis failed', error, {retryCount, ...})
FailedEntry(detectedType, retryCount) ==
  LogEntry("ERROR", <<detectedType, "analysis failed">>,
           {"message", "error", "stack", "retryCount", "fileName", "fileSize"}, retryCount)

\* logger.info('Retrying image analysis', {backoffMs, attempt: retryCount + 1, ...})
RetryingEntry(detectedType, retryCount) ==
  LogEntry("INFO", <<"Retrying", detectedType, "analysis">>,
           {"message", "backoffMs", "attempt", "maxRetries", "fileName"}, retryCount + 1)

\* logger.warn('Using fallback response for image', {fileName, reason})
FallbackEntry(detectedType) ==
  LogEntry("WARN", <<"Using fallback response for", detectedType>>,
           {"message", "fileName", "reason"}, 0)

\* analyzeDocument: logger.performance('Document analysis completed', duration,
\* {..., success: true}) once analyzeImage / analyzePDF has returned
PerformanceEntry ==
  LogEntry("PERFORMANCE", <<"Document analysis completed">>,
           {"operation", "durationMs", "requestId", "fileName", "fileType",
            "descriptionLength", "summaryLength", "success"}, 0)

\* parseGeminiResponse
ParsedEntry ==
  LogEntry("INFO", <<"Response parsed successfully">>,
           {"message", "originalDescriptionLength", "originalSummaryLength",
            "truncatedDescription", "truncatedSummary"}, 0)
ParseFailedEntry ==
  LogEntry("ERROR", <<"Failed to parse response">>,
           {"message", "error", "stack", "responseLength", "responsePreview"}, 0)

\* createFallbackResponse
CreatingFallbackEntry ==
  LogEntry("WARN", <<"Creating fallback response">>,
           {"message", "fileName", "fileType", "errorMessage"}, 0)

\* what the try block logged before an error of `kind` reached the catch block
EntriesBefore(kind, detectedType, keyStored) ==
  IF kind = "nokey" THEN (IF keyStored THEN <<InitFailedEntry>> ELSE <<KeyMissingEntry>>)
  ELSE IF kind = "parse" THEN ResponseEntries(detectedType) \o <<ParseFailedEntry>>
  ELSE <<>>

\* every record the AI client can write
Catalogue ==
  StartEntries
  \o <<ClientReadyEntry, KeyMissingEntry, InitFailedEntry, PerformanceEntry,
       ParsedEntry, ParseFailedEntry, CreatingFallbackEntry>>
  \o ResponseEntries("image")
  \o <<FallbackEntry("image"), FallbackEntry("pdf")>>
  \o [n \in 1..(MAX_RETRIES + 1) |-> SucceededEntry("image", n - 1)]
  \o [n \in 1..(MAX_RETRIES + 1) |-> SucceededEntry("pdf", n - 1)]
  \o [n \in 1..(MAX_RETRIES + 1) |-> FailedEntry("image", n - 1)]
  \o [n \in 1..(MAX_RETRIES + 1) |-> FailedEntry("pdf", n - 1)]
  \o [n \in 1..MAX_RETRIES |-> RetryingEntry("image", n - 1)]
  \o [n \in 1..MAX_RETRIES |-> RetryingEntry("pdf", n - 1)]

\* no two records of the catalogue share message and number
CatalogueDistinct ==
  \A e \in 1..Len(Catalogue) : \A f \in 1..Len(Catalogue) :
    (/\ Catalogue[e].message = Catalogue[f].message
     /\ Catalogue[e].number = Catalogue[f].number) => e = f

\* a record is determined by its message and its number: the log keeps the
\* place of each record in the catalogue
Noted(entries) ==
  [i \in 1..Len(entries) |->
     CHOOSE c \in 1..Len(Catalogue) : /\ Catalogue[c].message = entries[i].message
                                      /\ Catalogue[c].number = entries[i].number]

\* the records on the console, in the order they were written
Console(log) == [i \in 1..Len(log) |-> Catalogue[log[i]]]

\* res.status(code).json(...) and return
Respond(r, code) == [r EXCEPT !.pc = "done", !.status = code]

\* the catch block of /api/analyze after a Redis command threw `message`
RedisThrew(s, message) ==
  /\ req' = [req EXCEPT ![s] = Respond(@, ErrorStatus(message))]
  /\ obs' = [obs EXCEPT ![s].redisFailed = TRUE]
  /\ hist' = [hist EXCEPT !.redisFault = TRUE]

\* what the latest request for the same bytes that completed with a result of the
\* model returned, as seen when request `s` completes
PriorOf(s) ==
  IF ValidBody(req[s].body) THEN hist.lastGood[cacheKeyOf(req[s].body)] ELSE NoResult

\* a request completed with 200: remember a result that no fallback generator made
Completed(s, analysis, src) ==
  IF src # "fallback" /\ ValidBody(req[s].body)
  THEN [hist EXCEPT !.lastGood[cacheKeyOf(req[s].body)] = analysis]
  ELSE hist

----------------------------------------------------------------------------
(* POST /api/analyze, one action per await *)

\* the number of requests that reach the quota check is bounded
Reaching == Cardinality({t \in Slots : req[t].pc = "rl_get"})
NumChecked == hist.nChecked["alice"] + hist.nChecked["bob"]

\* postId check, then await reddit.getCurrentUsername()
Start(s, users, bodies, maxRequests) ==
  /\ req[s].pc = "idle"
  /\ NumChecked + Reaching < maxRequests
  /\ \E hasPost \in BOOLEAN, u \in users \cup {NoUser}, b \in bodies :
       /\ req' = [req EXCEPT ![s] =
            IF ~hasPost THEN Respond([IdleReq EXCEPT !.body = b], 400)
            ELSE IF u = NoUser THEN Respond([IdleReq EXCEPT !.body = b], 401)
            ELSE [IdleReq EXCEPT !.pc = "rl_get", !.user = u, !.body = b]]
       /\ obs' = [obs EXCEPT ![s] = IdleObs]
  /\ UNCHANGED <<rlCount, rlTtl, cache, cacheTtl, apiKey, hist, notAnalyzeVars>>

\* a limiter that increments before it checks
RlGetCountsRejected(s, faults) ==
  /\ req[s].pc = "rl_get"
  /\ LET count == rlCount[req[s].user] IN
     /\ req' = [req EXCEPT ![s] =
          IF OverLimit(count) THEN Respond(@, 429) ELSE [@ EXCEPT !.pc = "rl_expire"]]
     /\ rlCount' = [rlCount EXCEPT ![req[s].user] = @ + 1]
     /\ obs' = [obs EXCEPT ![s].checked = TRUE, ![s].incrs = @ + 1]
     /\ hist' = [hist EXCEPT !.nChecked[req[s].user] = @ + 1]
  /\ UNCHANGED <<rlTtl, cache, cacheTtl, apiKey, notAnalyzeVars>>

\* await redis.get(rateLimitKey); if (count >= RATE_LIMIT) -> 429
RlGet(s, faults) ==
  /\ req[s].pc = "rl_get"
  /\ \/ LET count == rlCount[req[s].user] IN
        /\ req' = [req EXCEPT ![s] =
             IF OverLimit(count) THEN Respond(@, 429) ELSE [@ EXCEPT !.pc = "rl_incr"]]
        /\ obs' = [obs EXCEPT ![s].checked = TRUE]
        /\ hist' = [hist EXCEPT !.nChecked[req[s].user] = @ + 1]
     \/ \E m \in faults : RedisThrew(s, m)
  /\ UNCHANGED <<rlCount, rlTtl, cache, cacheTtl, apiKey, notAnalyzeVars>>

\* an endpoint that validates the body before it counts the request
RlIncrValidatesFirst(s, faults) ==
  /\ req[s].pc = "rl_incr"
  /\ \/ /\ ValidBody(req[s].body)
        /\ rlCount' = [rlCount EXCEPT ![req[s].user] = @ + 1]
        /\ req' = [req EXCEPT ![s].pc = "rl_expire"]
        /\ obs' = [obs EXCEPT ![s].incrs = @ + 1]
        /\ UNCHANGED hist
     \/ /\ ~ValidBody(req[s].body)
        /\ req' = [req EXCEPT ![s] = Respond(@, 400)]
        /\ UNCHANGED <<rlCount, obs, hist>>
     \/ /\ \E m \in faults : RedisThrew(s, m)
        /\ UNCHANGED rlCount
  /\ UNCHANGED <<rlTtl, cache, cacheTtl, apiKey, notAnalyzeVars>>

\* await redis.incrBy(rateLimitKey, 1)
RlIncr(s, faults) ==
  /\ req[s].pc = "rl_incr"
  /\ \/ /\ rlCount' = [rlCount EXCEPT ![req[s].user] = @ + 1]
        /\ req' = [req EXCEPT ![s].pc = "rl_expire"]
        /\ obs' = [obs EXCEPT ![s].incrs = @ + 1]
        /\ UNCHANGED hist
     \/ /\ \E m \in faults : RedisThrew(s, m)
        /\ UNCHANGED rlCount
  /\ UNCHANGED <<rlTtl, cache, cacheTtl, apiKey, notAnalyzeVars>>

\* await redis.expire(rateLimitKey, secondsUntilMidnight); then the body checks
RlExpire(s, faults) ==
  /\ req[s].pc = "rl_expire"
  /\ \/ /\ rlTtl' = [rlTtl EXCEPT ![req[s].user] = TRUE]
        /\ req' = [req EXCEPT ![s] =
             IF ValidBody(@.body) THEN [@ EXCEPT !.pc = "cache_get"] ELSE Respond(@, 400)]
        /\ UNCHANGED <<obs, hist>>
     \/ /\ \E m \in faults : RedisThrew(s, m)
        /\ UNCHANGED rlTtl
  /\ UNCHANGED <<rlCount, cache, cacheTtl, apiKey, notAnalyzeVars>>

\* await redis.get(cacheKey): a hit is answered at once, a miss calls analyzeDocument
CacheGet(s, faults) ==
  /\ req[s].pc = "cache_get"
  /\ \/ LET cachedResult == cache[cacheKeyOf(req[s].body)] IN
        IF cachedResult # NoResult
        THEN /\ req' = [req EXCEPT ![s] = Respond([@ EXCEPT !.result = cachedResult], 200)]
             /\ obs' = [obs EXCEPT ![s].cacheReads = @ + 1, ![s].src = "cache",
                                   ![s].prior = PriorOf(s)]
             /\ hist' = Completed(s, cachedResult, "cache")
        ELSE /\ req' = [req EXCEPT ![s].pc = "get_model"]
             /\ obs' = [obs EXCEPT ![s].cacheReads = @ + 1, ![s].invoked = @ + 1,
                                   ![s].log = @ \o Noted(StartEntries)]
             /\ UNCHANGED hist
     \/ \E m \in faults : RedisThrew(s, m)
  /\ UNCHANGED <<rlCount, rlTtl, cache, cacheTtl, apiKey, notAnalyzeVars>>

\* an endpoint that writes every result of analyzeDocument to the cache
ReqAnalyzedCachesAll(r, analysis) ==
  [r EXCEPT !.pc = "cache_set", !.result = analysis]

\* the endpoint after analyzeDocument returned `analysis`
ReqAnalyzed(r, analysis) ==
  IF isFallback(analysis)
  THEN Respond([r EXCEPT !.result = analysis], 200)
  ELSE [r EXCEPT !.pc = "cache_set", !.result = analysis]

\* a client that passes a final failure on to the endpoint instead of absorbing it
CatchRethrows(s, kind, message, made) ==
  IF isRetryableError(message) /\ req[s].retryCount < MAX_RETRIES
  THEN /\ req' = [req EXCEPT ![s].pc = "backoff"]
       /\ obs' = [obs EXCEPT ![s].calls = @ + made, ![s].lastErr = kind,
                             ![s].retryable = TRUE,
                             ![s].waits = Append(@, backoffMs(req[s].retryCount))]
       /\ UNCHANGED hist
  ELSE /\ req' = [req EXCEPT ![s] = Respond(@, ErrorStatus(message))]
       /\ obs' = [obs EXCEPT ![s].calls = @ + made, ![s].lastErr = kind]
       /\ UNCHANGED hist

\* the catch block of analyzeImage / analyzePDF for an error of `kind` with `message`,
\* raised after `made` generateContent calls of this attempt
\* Promise.race settles with the timer's rejection: the generateContent promise of
\* this attempt stays pending, with no continuation of the handler attached to it
Abandoned(kind) == IF kind = "timeout" THEN 1 ELSE 0

Catch(s, kind, message, made) ==
  LET isRetryable == isRetryableError(message)
      detectedType == detectFileType(req[s].body.fileData, req[s].body.fileType)
      fallback == createFallbackResponse(req[s].body.fileName, detectedType)
      logged == Noted(EntriesBefore(kind, detectedType, apiKey)
                      \o <<FailedEntry(detectedType, req[s].retryCount)>>)
  IN
  IF isRetryable /\ req[s].retryCount < MAX_RETRIES
  THEN /\ req' = [req EXCEPT ![s].pc = "backoff"]
       /\ obs' = [obs EXCEPT ![s].calls = @ + made, ![s].lastErr = kind,
                             ![s].retryable = isRetryable,
                             ![s].abandoned = @ + Abandoned(kind),
                             ![s].waits = Append(@, backoffMs(req[s].retryCount)),
                             ![s].log = @ \o logged
                                          \o Noted(<<RetryingEntry(detectedType,
                                                                    req[s].retryCount)>>)]
       /\ UNCHANGED hist
  ELSE /\ req' = [req EXCEPT ![s] = ReqAnalyzed(@, fallback)]
       /\ obs' = [obs EXCEPT ![s].calls = @ + made, ![s].lastErr = kind,
                             ![s].retryable = isRetryable, ![s].src = "fallback",
                             ![s].abandoned = @ + Abandoned(kind),
                             ![s].log = @ \o logged
                                          \o Noted(<<FallbackEntry(detectedType),
                                                     CreatingFallbackEntry,
                                                     PerformanceEntry>>),
                             ![s].prior = IF isFallback(fallback) THEN PriorOf(s) ELSE @]
       /\ hist' = IF isFallback(fallback) THEN Completed(s, fallback, "fallback") ELSE hist

\* getModel: await redis.get('config:gemini_api_key'); a failed read is caught by
\* initializeGeminiClient and counts as no key
GetModel(s, faults) ==
  /\ req[s].pc = "get_model"
  /\ \/ /\ apiKey
        /\ req' = [req EXCEPT ![s].pc = "generate"]
        /\ obs' = [obs EXCEPT ![s].log = @ \o Noted(<<ClientReadyEntry>>)]
        /\ UNCHANGED hist
     \/ /\ ~apiKey
        /\ Catch(s, "nokey", NoKeyMessage, 0)
     \/ /\ faults # {}
        /\ Catch(s, "nokey", NoKeyMessage, 0)
  /\ UNCHANGED <<rlCount, rlTtl, cache, cacheTtl, apiKey, notAnalyzeVars>>

\* model.generateContent raced against the timer, then parseGeminiResponse
Generate(s, texts, errors) ==
  /\ req[s].pc = "generate"
  /\ \/ \E text \in texts :
          LET parsed == parseGeminiResponse(text) IN
          IF parsed.ok
          THEN /\ req' = [req EXCEPT ![s] = ReqAnalyzed(@, parsed.value)]
               /\ obs' = [obs EXCEPT ![s].calls = @ + 1, ![s].lastErr = "none",
                                     ![s].src = "model",
                                     ![s].log =
                                       LET detectedType ==
                                             detectFileType(req[s].body.fileData,
                                                            req[s].body.fileType)
                                       IN @ \o Noted(ResponseEntries(detectedType)
                                                  \o <<ParsedEntry,
                                                       SucceededEntry(detectedType,
                                                                      req[s].retryCount),
                                                       PerformanceEntry>>),
                                     ![s].prior = IF isFallback(parsed.value)
                                                  THEN PriorOf(s) ELSE @]
               /\ hist' = [(IF isFallback(parsed.value)
                            THEN Completed(s, parsed.value, "model") ELSE hist)
                           EXCEPT !.aiSucceeded = TRUE]
          ELSE Catch(s, "parse", parsed.error, 1)
     \/ \E e \in errors : Catch(s, e.kind, e.message, 1)
  /\ UNCHANGED <<rlCount, rlTtl, cache, cacheTtl, apiKey, notAnalyzeVars>>

\* await new Promise(resolve => setTimeout(resolve, backoffMs)); recursive call
Backoff(s) ==
  /\ req[s].pc = "backoff"
  /\ req' = [req EXCEPT ![s].pc = "get_model", ![s].retryCount = @ + 1]
  /\ obs' = [obs EXCEPT ![s].lastErr = "none", ![s].retryable = FALSE]
  /\ UNCHANGED <<hist, rlCount, rlTtl, cache, cacheTtl, apiKey, notAnalyzeVars>>

\* a late answer that is taken for the result of the request and cached
LateResolveDelivers(s, texts, errors) ==
  /\ obs[s].abandoned > 0
  /\ \E text \in texts :
       LET parsed == parseGeminiResponse(text) IN
       /\ parsed.ok
       /\ req' = [req EXCEPT ![s].result = parsed.value]
       /\ cache' = IF ValidBody(req[s].body)
                   THEN [cache EXCEPT ![cacheKeyOf(req[s].body)] = parsed.value]
                   ELSE cache
  /\ obs' = [obs EXCEPT ![s].abandoned = @ - 1, ![s].late = @ + 1]
  /\ UNCHANGED <<hist, rlCount, rlTtl, cacheTtl, apiKey, notAnalyzeVars>>

\* An abandoned generateContent promise settles after the timer has won its race,
\* with a response or with an error of the API.  Promise.race has settled already
\* and `await` has thrown: the only reactions on the promise are those of
\* Promise.race, which do nothing now, so no local of the handler, no Redis key
\* and no retry depends on the outcome.
LateResolve(s, texts, errors) ==
  /\ obs[s].abandoned > 0
  /\ \E outcome \in texts \cup errors :
       obs' = [obs EXCEPT ![s].abandoned = @ - 1, ![s].late = @ + 1]
  /\ UNCHANGED <<req, hist, rlCount, rlTtl, cache, cacheTtl, apiKey, notAnalyzeVars>>

\* await redis.set(cacheKey, JSON.stringify(analysis))
CacheSet(s, faults) ==
  /\ req[s].pc = "cache_set"
  /\ \/ LET k == cacheKeyOf(req[s].body) IN
        /\ cache' = [cache EXCEPT ![k] = req[s].result]
        /\ cacheTtl' = [cacheTtl EXCEPT ![k] = FALSE]
        /\ req' = [req EXCEPT ![s].pc = "cache_expire"]
        /\ obs' = [obs EXCEPT ![s].cacheWrites = @ + 1]
        /\ hist' = [hist EXCEPT !.cacheSrc[k] = obs[s].src]
     \/ /\ \E m \in faults : RedisThrew(s, m)
        /\ UNCHANGED <<cache, cacheTtl>>
  /\ UNCHANGED <<rlCount, rlTtl, apiKey, notAnalyzeVars>>

\* await redis.expire(cacheKey, CACHE_TTL_SECONDS); res.json(...)
CacheExpire(s, faults) ==
  /\ req[s].pc = "cache_expire"
  /\ \/ /\ cacheTtl' = [cacheTtl EXCEPT ![cacheKeyOf(req[s].body)] = TRUE]
        /\ req' = [req EXCEPT ![s] = Respond(@, 200)]
        /\ hist' = Completed(s, req[s].result, obs[s].src)
        /\ obs' = [obs EXCEPT ![s].prior = PriorOf(s)]
     \/ /\ \E m \in faults : RedisThrew(s, m)
        /\ UNCHANGED cacheTtl
  /\ UNCHANGED <<rlCount, rlTtl, cache, apiKey, notAnalyzeVars>>

\* the response has been sent; the slot is free for the next request
Finish(s) ==
  /\ req[s].pc = "done"
  /\ req' = [req EXCEPT ![s] = IdleReq]
  /\ obs' = [obs EXCEPT ![s] = IdleObs]
  /\ UNCHANGED <<hist, rlCount, rlTtl, cache, cacheTtl, apiKey, notAnalyzeVars>>

\* POST /api/temp-set-key: redis.set('config:gemini_api_key', apiKey)
TempSetKey ==
  /\ ~apiKey
  /\ apiKey' = TRUE
  /\ UNCHANGED <<req, obs, hist, rlCount, rlTtl, cache, cacheTtl, notAnalyzeVars>>

\* Redis drops a cache key whose 7-day expiry has run out
CacheTtlElapsed(k) ==
  /\ cache[k] # NoResult
  /\ cacheTtl[k]
  /\ cache' = [cache EXCEPT ![k] = NoResult]
  /\ cacheTtl' = [cacheTtl EXCEPT ![k] = FALSE]
  /\ hist' = [hist EXCEPT !.cacheSrc[k] = "none", !.lastGood[k] = NoResult]
  /\ UNCHANGED <<req, obs, rlCount, rlTtl, apiKey, notAnalyzeVars>>

----------------------------------------------------------------------------
(* Storage adapters: S3StorageAdapter and PostgreSQLStorageAdapter *)

Providers == {"s3", "postgresql"}

\* enum StorageErrorCode
StorageErrorCodes ==
  {"UPLOAD_FAILED", "DOWNLOAD_FAILED", "DELETE_FAILED", "NOT_FOUND", "UNAUTHORIZED",
   "CONFIGURATION_ERROR", "SIZE_LIMIT_EXCEEDED", "NETWORK_ERROR"}

\* retryOperation(operation, maxRetries = 3, baseDelay = 1000)
RETRY_ATTEMPTS == 3
BASE_DELAY == 1000

\* storage keys an upload can generate (timestamp and random suffix: never reused)
StorageKeys == {"k1", "k2"}

\* a piece of an error message: constant text, the name of a setting, the
\* provider name, or the value of a setting
Text(t) == [kind |-> "text", text |-> t, value |-> <<>>]

\* an operation returned
Returned(after, attempts) ==
  [ok |-> TRUE, typed |-> TRUE, code |-> "", message |-> <<>>, infra |-> FALSE,
   after |-> after, attempts |-> attempts, tried |-> <<>>, delays |-> <<>>]

\* throw new StorageError(code, message, details)
StorageError(code, message, infra, after, attempts) ==
  [ok |-> FALSE, typed |-> TRUE, code |-> code, message |-> message, infra |-> infra,
   after |-> after, attempts |-> attempts, tried |-> <<>>, delays |-> <<>>]

\* an error of the SDK or the driver that leaves the adapter as it was thrown
Untyped(message, after, attempts) ==
  [ok |-> FALSE, typed |-> FALSE, code |-> "", message |-> message, infra |-> TRUE,
   after |-> after, attempts |-> attempts, tried |-> <<>>, delays |-> <<>>]

NotConfigured(p, keys) ==
  StorageError("CONFIGURATION_ERROR",
               IF p = "s3" THEN <<Text("S3 storage is not properly configured")>>
               ELSE <<Text("PostgreSQL adapter is not properly configured")>>,
               FALSE, keys, 0)

\* what one PutObject attempt can do: succeed, fail with a transient network
\* error, or fail with an error no retry can cure (access denied, no such bucket)
PutResults == {"ok", "network", "denied"}

\* what the successive attempts would do, for as many attempts as can be made
PutRuns == [1..RETRY_ATTEMPTS -> PutResults]

\* const delay = baseDelay * Math.pow(2, attempt), a delay that does not grow
storageDelayFlat(attempt) == BASE_DELAY

\* const delay = baseDelay * Math.pow(2, attempt)
storageDelay(attempt) == BASE_DELAY * (2 ^ attempt)

\* retryOperation(operation): attempt 0, 1, ... (maxRetries - 1); the first attempt
\* that returns ends the loop; a failed attempt other than the last one is
\* followed by its delay, whatever the error; the last one throws its error on.
\* `tried` are the results of the attempts made, `delays` the waits in ms.
retryOperation(run) ==
  LET succeeded == {i \in 1..RETRY_ATTEMPTS : run[i] = "ok"}
      made == IF succeeded = {} THEN RETRY_ATTEMPTS
              ELSE CHOOSE i \in succeeded : \A j \in succeeded : i <= j
  IN [ok |-> succeeded # {},
      attempts |-> made,
      tried |-> [i \in 1..made |-> run[i]],
      delays |-> [i \in 1..(made - 1) |-> storageDelay(i - 1)]]

\* upload(buffer, metadata) on backend p holding `keys`, generating storage key k.
\* S3: PutObject under retryOperation, then getSignedUrl; PostgreSQL: one INSERT.
UploadOutcomes(p, configured, keys, k) ==
  IF ~configured THEN {NotConfigured(p, keys)}
  ELSE IF p = "s3"
  THEN {LET r == retryOperation(run)
            o == IF r.ok /\ signed THEN Returned(keys \cup {k}, r.attempts)
                 ELSE StorageError("UPLOAD_FAILED",
                                   <<Text("Failed to upload document to S3")>>, TRUE,
                                   IF r.ok THEN keys \cup {k} ELSE keys, r.attempts)
        IN [o EXCEPT !.tried = r.tried, !.delays = r.delays] :
          run \in PutRuns, signed \in BOOLEAN}
  ELSE {StorageError("UPLOAD_FAILED", <<Text("Failed to upload document to PostgreSQL")>>, TRUE,
                     keys, 1),
        Returned(keys \cup {k}, 1)}

\* getUrl(storageKey).  S3 signs a GetObject request; PostgreSQL selects the row.
GetUrlOutcomes(p, configured, keys, k) ==
  IF ~configured THEN {NotConfigured(p, keys)}
  ELSE IF p = "s3"
  THEN {StorageError("DOWNLOAD_FAILED", <<Text("Failed to generate access URL")>>, TRUE, keys, 1),
        Returned(keys, 1)}
  ELSE {StorageError("DOWNLOAD_FAILED", <<Text("Failed to generate document URL")>>, TRUE, keys, 1),
        IF k \in keys THEN Returned(keys, 1)
        ELSE StorageError("NOT_FOUND", <<Text("Document not found in PostgreSQL storage")>>,
                          FALSE, keys, 1)}

\* a delete whose catch block is missing: the error of the SDK is thrown on
DeleteOutcomesUnwrapped(p, configured, keys, k) ==
  IF ~configured THEN {NotConfigured(p, keys)}
  ELSE {Untyped(<<Text("NoSuchBucket")>>, keys, 1), Returned(keys \ {k}, 1)}

\* delete(storageKey).  S3 sends DeleteObject; PostgreSQL deletes the row and
\* looks at rowCount.
DeleteOutcomes(p, configured, keys, k) ==
  IF ~configured THEN {NotConfigured(p, keys)}
  ELSE IF p = "s3"
  THEN {StorageError("DELETE_FAILED", <<Text("Failed to delete document from S3")>>, TRUE, keys, 1),
        Returned(keys \ {k}, 1)}
  ELSE {StorageError("DELETE_FAILED", <<Text("Failed to delete document from PostgreSQL")>>,
                     TRUE, keys, 1),
        IF k \in keys THEN Returned(keys \ {k}, 1)
        ELSE StorageError("NOT_FOUND", <<Text("Document not found in PostgreSQL storage")>>,
                          FALSE, keys, 1)}

NoOperation ==
  [provider |-> "none", op |-> "none", key |-> "", was |-> "unused",
   outcome |-> Returned({}, 0)]

StorageAtRest ==
  /\ adapters = [p \in Providers |-> [configured |-> FALSE]]
  /\ sres = NoOperation
  /\ skeys = [p \in Providers |-> [k \in StorageKeys |-> "unused"]]

\* each adapter is constructed with or without its required settings
InitStorage ==
  /\ adapters \in [Providers -> [configured : BOOLEAN]]
  /\ sres = NoOperation
  /\ skeys = [p \in Providers |-> [k \in StorageKeys |-> "unused"]]

\* await adapter.upload(buffer, metadata)
Upload(p) ==
  \E k \in StorageKeys :
    /\ skeys[p][k] = "unused"
    /\ \E o \in UploadOutcomes(p, adapters[p].configured, store[p], k) :
         /\ store' = [store EXCEPT ![p] = o.after]
         /\ skeys' = [skeys EXCEPT ![p][k] =
                        IF o.ok THEN "returned"
                        ELSE IF k \in o.after THEN "stored" ELSE "unused"]
         /\ sres' = [provider |-> p, op |-> "upload", key |-> k, was |-> skeys[p][k],
                     outcome |-> o]
    /\ UNCHANGED <<adapters, docs, provider, dh, dhist, notStorageVars>>

\* await adapter.getUrl(storageKey)
GetUrl(p, k) ==
  /\ \E o \in GetUrlOutcomes(p, adapters[p].configured, store[p], k) :
       sres' = [provider |-> p, op |-> "getUrl", key |-> k, was |-> skeys[p][k],
                outcome |-> o]
  /\ UNCHANGED <<adapters, skeys, docVars, notStorageVars>>

\* await adapter.delete(storageKey)
Delete(p, k) ==
  /\ \E o \in DeleteOutcomes(p, adapters[p].configured, store[p], k) :
       /\ store' = [store EXCEPT ![p] = o.after]
       /\ skeys' = [skeys EXCEPT ![p][k] =
                      IF ~o.ok THEN @
                      ELSE IF @ \in {"returned", "deleted"} THEN "deleted"
                      ELSE IF @ = "stored" THEN "gone" ELSE @]
       /\ sres' = [provider |-> p, op |-> "delete", key |-> k, was |-> skeys[p][k],
                   outcome |-> o]
  /\ UNCHANGED <<adapters, docs, provider, dh, dhist, notStorageVars>>

NextStorage ==
  \E p \in Providers :
    \/ Upload(p)
    \/ \E k \in StorageKeys : GetUrl(p, k)
    \/ \E k \in StorageKeys : Delete(p, k)

----------------------------------------------------------------------------
(* StorageFactory *)

Name(n) == [kind |-> "name", text |-> n, value |-> <<>>]
ProviderName(p) == [kind |-> "provider", text |-> p, value |-> <<>>]
Value(v) == [kind |-> "value", text |-> "", value |-> v]

\* credentials are character sequences; a setting that is not set is empty
KeyIdChars == <<"A", "K", "I", "A", "1", "2", "3", "4", "5">>
ConnChars == <<"p", "g", ":", "/", "/", "u", ":", "p", "@">>
SecretKey == <<"w", "J", "a", "l", "r">>
SecretLengths == {0, 7, 8, 9}

\* what the caller passes (an AppConfig read from Redis) or, without it, the
\* process environment
S3Settings ==
  { [source |-> src, provider |-> "s3", accessKeyId |-> SubSeq(KeyIdChars, 1, n),
     secretAccessKey |-> sk, bucket |-> b, connectionString |-> <<>>, serverBaseUrl |-> ""] :
      src \in {"app", "env"}, n \in SecretLengths, sk \in {<<>>, SecretKey},
      b \in {"devvit-ocr"} } \cup
  { [source |-> "app", provider |-> "s3", accessKeyId |-> SubSeq(KeyIdChars, 1, 9),
     secretAccessKey |-> SecretKey, bucket |-> "", connectionString |-> <<>>,
     serverBaseUrl |-> ""] }

PostgreSQLSettings ==
  { [source |-> "app", provider |-> "postgresql", accessKeyId |-> <<>>,
     secretAccessKey |-> <<>>, bucket |-> "", connectionString |-> SubSeq(ConnChars, 1, n),
     serverBaseUrl |-> u] :
      n \in SecretLengths, u \in {"", "https://srv"} }

OtherSettings ==
  { [source |-> src, provider |-> pr, accessKeyId |-> SubSeq(KeyIdChars, 1, 9),
     secretAccessKey |-> SecretKey, bucket |-> "devvit-ocr", connectionString |-> <<>>,
     serverBaseUrl |-> ""] :
      src \in {"app", "env"}, pr \in {"redis", ""} }

Settings == S3Settings \cup PostgreSQLSettings \cup OtherSettings

NoS3 == [accessKeyId |-> <<>>, secretAccessKey |-> <<>>, bucket |-> ""]
NoPostgreSQL == [connectionString |-> <<>>, serverBaseUrl |-> ""]
NoConfig == [set |-> FALSE, provider |-> "", hasS3 |-> FALSE, s3 |-> NoS3,
             hasPostgreSQL |-> FALSE, postgresql |-> NoPostgreSQL]
NoInstance == [provider |-> "none", configured |-> FALSE, id |-> 0]

\* loadConfigurationFromAppConfig(appConfig) / loadConfiguration()
loadConfiguration(settings) ==
  LET prov == IF settings.source = "env" /\ settings.provider = "" THEN "s3"
              ELSE settings.provider IN
  [set |-> TRUE, provider |-> prov,
   hasS3 |-> prov = "s3",
   s3 |-> IF prov = "s3"
          THEN [accessKeyId |-> settings.accessKeyId,
                secretAccessKey |-> settings.secretAccessKey, bucket |-> settings.bucket]
          ELSE NoS3,
   hasPostgreSQL |-> prov = "postgresql",
   postgresql |-> IF prov = "postgresql"
                  THEN [connectionString |-> settings.connectionString,
                        serverBaseUrl |-> settings.serverBaseUrl]
                  ELSE NoPostgreSQL]

\* missing.map(v => v.name).join(', ')
RECURSIVE JoinNames(_)
JoinNames(names) ==
  IF names = <<>> THEN <<>>
  ELSE IF Len(names) = 1 THEN <<Name(names[1])>>
  ELSE <<Name(names[1]), Text(", ")>> \o JoinNames(Tail(names))

\* requiredVars.filter(v => !v.value)
MissingS3(s3Config) ==
  (IF s3Config.accessKeyId = <<>> THEN <<"AWS_ACCESS_KEY_ID">> ELSE <<>>)
  \o (IF s3Config.secretAccessKey = <<>> THEN <<"AWS_SECRET_ACCESS_KEY">> ELSE <<>>)
  \o (IF s3Config.bucket = "" THEN <<"AWS_S3_BUCKET">> ELSE <<>>)

MissingPostgreSQL(pgConfig) ==
  (IF pgConfig.connectionString = <<>> THEN <<"POSTGRESQL_CONNECTION_STRING">> ELSE <<>>)
  \o (IF pgConfig.serverBaseUrl = "" THEN <<"SERVER_BASE_URL">> ELSE <<>>)

Valid == [ok |-> TRUE, message |-> <<>>]
Invalid(message) == [ok |-> FALSE, message |-> message]

\* a validation that names the settings it found beside the ones it misses
validateS3ConfigurationEchoes(s3Config) ==
  IF MissingS3(s3Config) = <<>> THEN Valid
  ELSE Invalid(<<Text("Missing required S3 configuration: ")>>
               \o JoinNames(MissingS3(s3Config))
               \o <<Text(" (AWS_ACCESS_KEY_ID="), Value(s3Config.accessKeyId), Text(")")>>)

\* validateS3Configuration(s3Config)
validateS3Configuration(s3Config) ==
  IF MissingS3(s3Config) = <<>> THEN Valid
  ELSE Invalid(<<Text("Missing required S3 configuration: ")>>
               \o JoinNames(MissingS3(s3Config)))

\* validatePostgreSQLConfiguration(pgConfig)
validatePostgreSQLConfiguration(pgConfig) ==
  IF MissingPostgreSQL(pgConfig) = <<>> THEN Valid
  ELSE Invalid(<<Text("Missing required PostgreSQL configuration: ")>>
               \o JoinNames(MissingPostgreSQL(pgConfig)))

\* a validation that accepts a configuration without looking at its settings
validateConfigurationLax(config) ==
  IF config.provider \notin {"s3", "postgresql"}
  THEN Invalid(<<Text("Invalid storage provider: "), ProviderName(config.provider),
                 Text(". Must be 's3' or 'postgresql'")>>)
  ELSE Valid

\* validateConfiguration(config)
validateConfiguration(config) ==
  IF config.provider = ""
  THEN Invalid(<<Text("STORAGE_PROVIDER environment variable is required")>>)
  ELSE IF config.provider \notin {"s3", "postgresql"}
  THEN Invalid(<<Text("Invalid storage provider: "), ProviderName(config.provider),
                 Text(". Must be 's3' or 'postgresql'")>>)
  ELSE IF config.provider = "s3" THEN validateS3Configuration(config.s3)
  ELSE validatePostgreSQLConfiguration(config.postgresql)

\* createAdapter(config): the constructors set `configured`
createAdapter(config, id) ==
  [provider |-> config.provider,
   configured |-> IF config.provider = "s3"
                  THEN /\ config.s3.accessKeyId # <<>>
                       /\ config.s3.secretAccessKey # <<>>
                       /\ config.s3.bucket # ""
                  ELSE /\ config.postgresql.connectionString # <<>>
                       /\ config.postgresql.serverBaseUrl # "",
   id |-> id]

\* data.length < 8 and substring(0, 4) / substring(data.length - 4)
MASK_MIN == 8
MASK_SHOWN == 4

Masked == <<"***MASKED***">>

\* maskSensitiveData(data)
maskSensitiveData(data) ==
  IF data = <<>> \/ Len(data) < MASK_MIN THEN Masked
  ELSE SubSeq(data, 1, MASK_SHOWN) \o <<"...">>
       \o SubSeq(data, Len(data) - MASK_SHOWN + 1, Len(data))

\* getConfig(): null, or the configuration with sensitive data masked
getConfig(config) ==
  [set |-> config.set, provider |-> config.provider,
   hasS3 |-> config.hasS3,
   s3 |-> IF config.hasS3
          THEN [accessKeyId |-> maskSensitiveData(config.s3.accessKeyId),
                secretAccessKey |-> Masked, bucket |-> config.s3.bucket]
          ELSE NoS3,
   hasPostgreSQL |-> config.hasPostgreSQL,
   postgresql |-> IF config.hasPostgreSQL
                  THEN [connectionString |->
                          maskSensitiveData(config.postgresql.connectionString),
                        serverBaseUrl |-> config.postgresql.serverBaseUrl]
                  ELSE NoPostgreSQL]

NoSettings == [source |-> "none", provider |-> "", accessKeyId |-> <<>>,
               secretAccessKey |-> <<>>, bucket |-> "", connectionString |-> <<>>,
               serverBaseUrl |-> ""]

NoCall == [op |-> "none", settings |-> NoSettings, fresh |-> FALSE, ok |-> TRUE,
           code |-> "", message |-> <<>>, instance |-> NoInstance, masked |-> NoConfig]

FactoryAtRest ==
  /\ factory = [instance |-> NoInstance, config |-> NoConfig]
  /\ fres = NoCall
  /\ fhist = [built |-> 0, first |-> NoInstance]

\* a factory that resolves the configuration on every call
GetAdapterNoCache(settings) ==
  LET config == loadConfiguration(settings)
      valid == validateConfiguration(config)
      inst == createAdapter(config, fhist.built + 1)
      call == [NoCall EXCEPT !.op = "getAdapter", !.settings = settings, !.fresh = TRUE]
  IN
  /\ fhist.built < 2
  /\ IF ~valid.ok
     THEN /\ factory' = [factory EXCEPT !.config = config]
          /\ fres' = [call EXCEPT !.ok = FALSE, !.code = "CONFIGURATION_ERROR",
                                  !.message = valid.message]
          /\ UNCHANGED fhist
     ELSE /\ factory' = [instance |-> inst, config |-> config]
          /\ fres' = [call EXCEPT !.instance = inst]
          /\ fhist' = [built |-> fhist.built + 1,
                       first |-> IF fhist.first = NoInstance THEN inst ELSE fhist.first]
  /\ UNCHANGED <<analyzeVars, docVars, storageVars, parseVars, quotaVars, streamVars>>

\* StorageFactory.getAdapter(appConfig?)
GetAdapter(settings) ==
  LET config == loadConfiguration(settings)
      valid == validateConfiguration(config)
      inst == createAdapter(config, fhist.built + 1)
      call == [NoCall EXCEPT !.op = "getAdapter", !.settings = settings]
  IN
  /\ IF factory.instance # NoInstance
     THEN /\ fres' = [call EXCEPT !.instance = factory.instance]
          /\ UNCHANGED <<factory, fhist>>
     ELSE IF ~valid.ok
     THEN /\ factory' = [factory EXCEPT !.config = config]
          /\ fres' = [call EXCEPT !.fresh = TRUE, !.ok = FALSE,
                                  !.code = "CONFIGURATION_ERROR",
                                  !.message = valid.message]
          /\ UNCHANGED fhist
     ELSE /\ factory' = [instance |-> inst, config |-> config]
          /\ IF inst.configured
             THEN /\ fres' = [call EXCEPT !.fresh = TRUE, !.instance = inst]
                  /\ fhist' = [built |-> fhist.built + 1,
                               first |-> IF fhist.first = NoInstance THEN inst
                                         ELSE fhist.first]
             ELSE /\ fres' = [call EXCEPT !.fresh = TRUE, !.ok = FALSE,
                                !.code = "CONFIGURATION_ERROR",
                                !.message =
                                  <<Text("Storage provider "), ProviderName(config.provider),
                                    Text(" is not properly configured. Check configuration in Redis.")>>]
                  /\ fhist' = [fhist EXCEPT !.built = @ + 1]
  /\ UNCHANGED <<analyzeVars, docVars, storageVars, parseVars, quotaVars, streamVars>>

\* a reset that drops the adapter but keeps the configuration it was built from
ResetKeepsConfig ==
  /\ factory' = [factory EXCEPT !.instance = NoInstance]
  /\ fres' = [NoCall EXCEPT !.op = "reset"]
  /\ fhist' = [built |-> 0, first |-> NoInstance]
  /\ UNCHANGED <<analyzeVars, docVars, storageVars, parseVars, quotaVars, streamVars>>

\* StorageFactory.reset()
Reset ==
  /\ factory' = [instance |-> NoInstance, config |-> NoConfig]
  /\ fres' = [NoCall EXCEPT !.op = "reset"]
  /\ fhist' = [built |-> 0, first |-> NoInstance]
  /\ UNCHANGED <<analyzeVars, docVars, storageVars, parseVars, quotaVars, streamVars>>

\* StorageFactory.getConfig()
GetConfig ==
  /\ fres' = [NoCall EXCEPT !.op = "getConfig", !.masked = getConfig(factory.config)]
  /\ UNCHANGED <<factory, fhist, analyzeVars, docVars, storageVars, parseVars, quotaVars, streamVars>>

\* the caller uses the adapter that getAdapter has just returned
UseInstance(op) ==
  /\ fres.op = "getAdapter" /\ fres.ok
  /\ LET inst == fres.instance
         keys == store[inst.provider]
         outcomes == CASE op = "upload" -> UploadOutcomes(inst.provider, inst.configured, keys, "k1")
                       [] op = "getUrl" -> GetUrlOutcomes(inst.provider, inst.configured, keys, "k1")
                       [] OTHER -> DeleteOutcomes(inst.provider, inst.configured, keys, "k1")
     IN \E o \in outcomes :
          /\ sres' = [provider |-> inst.provider, op |-> op, key |-> "k1",
                      was |-> skeys[inst.provider]["k1"], outcome |-> o]
          /\ store' = [store EXCEPT ![inst.provider] = o.after]
  /\ UNCHANGED <<adapters, skeys, docs, provider, dh, dhist, factoryVars,
                 analyzeVars, parseVars, quotaVars, streamVars>>

NextFactory ==
  \/ \E settings \in Settings : GetAdapter(settings)
  \/ Reset
  \/ GetConfig
  \/ \E op \in {"upload", "getUrl", "delete"} : UseInstance(op)

----------------------------------------------------------------------------
(* parseGeminiResponse and createFallbackResponse on their own *)

\* how far past a length cap the generated texts and file names go
MaxOver == 2
\* how many control characters a generated text holds at most
MaxControls == 2

\* the character at position i of a generated text: letters, and a newline every fourth
Letter(i) ==
  CASE i % 4 = 1 -> "a"
    [] i % 4 = 2 -> "b"
    [] i % 4 = 3 -> "<NL>"
    [] OTHER -> "c"

\* a text of n characters with a control character at each position of `controls`
TextOf(n, controls) ==
  [i \in 1..n |-> IF i \in controls THEN "<BEL>" ELSE Letter(i)]

\* where the control characters sit: first character, just before, at and past a cap
ControlsAround(cap) ==
  {c \in SUBSET ({1, cap - 1, cap} \cup (cap + 1 .. cap + MaxOver - 1)) :
     Cardinality(c) <= MaxControls}

\* texts around a cap: short ones, ones that reach the cap, longer ones, and a long one
TextsAround(cap) ==
  { TextOf(n, controls) :
      n \in {1} \cup (cap - 1 .. cap + MaxOver) \cup {SUMMARY_MAX},
      controls \in ControlsAround(cap) }

NotJson == [json |-> FALSE, fields |-> {}, description |-> <<>>, summary |-> <<>>]

\* what generateContent answers: well-formed objects with generated field values,
\* and the malformed texts of ModelTexts
ParseTexts ==
  { [json |-> TRUE, fields |-> {"description", "summary"},
     description |-> d, summary |-> m] :
      d \in TextsAround(DESC_MAX), m \in TextsAround(SUMMARY_MAX) }
    \cup {t \in ModelTexts : ~parseGeminiResponse(t).ok}

\* file names: index.ts:569 only asks for a non-empty one
FileNames ==
  { TextOf(n, controls) :
      n \in {1} \cup (DESC_MAX - 8 .. DESC_MAX - 6 + MaxOver), controls \in {{}, {1}} }

\* one call of analyzeDocument: the answer of the AI call (a text, or an error
\* that is not retried any more), the file name and the detected file type
ParseInputs ==
  [api : {"text"}, text : ParseTexts, fileName : {TextOf(5, {})}, fileType : {"image"}]
    \cup [api : {"text", "error"}, text : {t \in ParseTexts : ~t.json},
          fileName : FileNames, fileType : {"image", "pdf"}]

NoInput == [api |-> "none", text |-> NotJson, fileName |-> <<>>, fileType |-> "image"]
NoOutput == [from |-> "none", description |-> <<>>, summary |-> <<>>]

ParseAtRest ==
  /\ pin = NoInput
  /\ pout = NoOutput

\* the AI call answered and parseGeminiResponse accepted the text
ResponseParsed ==
  LET r == parseGeminiResponse(pin.text) IN
  /\ pin.api = "text"
  /\ pout = NoOutput
  /\ r.ok
  /\ pout' = [from |-> "model", description |-> r.value.description,
              summary |-> r.value.summary]
  /\ UNCHANGED <<pin, analyzeVars, docVars, storageVars, factoryVars, quotaVars, streamVars>>

\* the AI call failed for good, or parseGeminiResponse raised: neither error is
\* retried, the catch block returns createFallbackResponse
FallbackCreated ==
  LET fallback == createFallbackResponse(pin.fileName, pin.fileType) IN
  /\ pin.api \in {"text", "error"}
  /\ pout = NoOutput
  /\ pin.api = "text" => ~parseGeminiResponse(pin.text).ok
  /\ pout' = [from |-> "fallback", description |-> fallback.description,
              summary |-> fallback.summary]
  /\ UNCHANGED <<pin, analyzeVars, docVars, storageVars, factoryVars, quotaVars, streamVars>>

NextParse ==
  \/ ResponseParsed
  \/ FallbackCreated

----------------------------------------------------------------------------
(* The quota section of POST /api/analyze over time: index.ts:510-549 *)

HOURS_PER_DAY == 24
\* the hours explored before and after a UTC midnight
MaxHours == 3
\* the number of requests that reach the quota section
MaxQuotaRequests == 4

\* instants are whole hours since the epoch; the explored window lies around the
\* UTC midnight that begins day 2
Midnight == 2 * HOURS_PER_DAY
Instants == (Midnight - MaxHours) .. (Midnight + MaxHours)
\* offsets of the server's local time from UTC, in hours
TimeZones == {-5, 0, 2}

\* Date.prototype.toISOString: the UTC calendar date and the UTC time of day
toISOString(t) == [date |-> t \div HOURS_PER_DAY, time |-> t % HOURS_PER_DAY]

\* new Date(now).setUTCHours(24, 0, 0, 0): the next UTC midnight
setUTCHours24(t) == ((t \div HOURS_PER_DAY) + 1) * HOURS_PER_DAY

\* new Date().setHours(24, 0, 0, 0): the next midnight of the server's local time
setHours24(t, zone) == (((t + zone) \div HOURS_PER_DAY) + 1) * HOURS_PER_DAY - zone

Dates == {toISOString(t).date : t \in Instants}
\* a key without the date: one counter per identity
rateLimitKeyUndated(username, today) == <<username, toISOString(Midnight).date>>

\* `ratelimit:analysis:${username}:${today}`
rateLimitKey(username, today) == <<username, today>>
QuotaKeys == {rateLimitKey(u, d) : u \in Users, d \in Dates}

\* a key that does not exist reads as count 0; expiry 0 stands for no expiry
NoCounter == [count |-> 0, expiry |-> 0]
NoHeaders == [limit |-> 0, remaining |-> 0, reset |-> toISOString(0)]
IdleQuota == [pc |-> "idle", user |-> NoUser, key |-> rateLimitKey(NoUser, 0),
              startedAt |-> 0, decidedAt |-> 0, count |-> 0, newCount |-> 0,
              midnight |-> 0, seconds |-> 0, status |-> 0, headers |-> NoHeaders]

QuotaAtRest ==
  /\ clock = Midnight - MaxHours
  /\ tz = 0
  /\ quota = [k \in QuotaKeys |-> NoCounter]
  /\ qreq = IdleQuota
  /\ qhist = [admitted |-> [w \in Users \X Dates |-> 0],
              rejected |-> [w \in Users \X Dates |-> 0],
              started |-> 0]

\* the identity of a request and the UTC date on which it was made
Window(r) == <<r.user, toISOString(r.startedAt).date>>

\* const today = new Date().toISOString().split('T')[0]; the key is built once
QuotaStart(u) ==
  /\ qreq.pc = "idle"
  /\ qhist.started < MaxQuotaRequests
  /\ qreq' = [IdleQuota EXCEPT !.pc = "get", !.user = u, !.startedAt = clock,
                               !.key = rateLimitKey(u, toISOString(clock).date)]
  /\ qhist' = [qhist EXCEPT !.started = @ + 1]
  /\ UNCHANGED <<clock, tz, quota, analyzeVars, docVars, storageVars, factoryVars,
                 parseVars, streamVars>>

\* await redis.get(rateLimitKey); count >= RATE_LIMIT -> headers and 429
QuotaGet ==
  /\ qreq.pc = "get"
  /\ LET count == quota[qreq.key].count IN
     IF OverLimit(count)
     THEN /\ qreq' = [qreq EXCEPT !.pc = "done", !.status = 429, !.count = count,
                        !.decidedAt = clock,
                        !.headers = [limit |-> RATE_LIMIT, remaining |-> 0,
                                     reset |-> toISOString(setHours24(clock, tz))]]
          /\ qhist' = [qhist EXCEPT !.rejected[Window(qreq)] = @ + 1]
     ELSE /\ qreq' = [qreq EXCEPT !.pc = "incr", !.count = count]
          /\ UNCHANGED qhist
  /\ UNCHANGED <<clock, tz, quota, analyzeVars, docVars, storageVars, factoryVars,
                 parseVars, streamVars>>

\* const newCount = await redis.incrBy(rateLimitKey, 1); then now, midnight and
\* secondsUntilMidnight are computed and redis.expire is issued
QuotaIncr ==
  /\ qreq.pc = "incr"
  /\ LET newCount == quota[qreq.key].count + 1
         midnight == setUTCHours24(clock)
     IN
     /\ quota' = [quota EXCEPT ![qreq.key].count = newCount]
     /\ qreq' = [qreq EXCEPT !.pc = "expire", !.newCount = newCount,
                             !.decidedAt = clock,
                             !.midnight = midnight, !.seconds = midnight - clock]
     /\ qhist' = [qhist EXCEPT !.admitted[Window(qreq)] = @ + 1]
  /\ UNCHANGED <<clock, tz, analyzeVars, docVars, storageVars, factoryVars, parseVars, streamVars>>

\* await redis.expire(rateLimitKey, secondsUntilMidnight); then the headers are set
QuotaExpire ==
  /\ qreq.pc = "expire"
  /\ quota' = [quota EXCEPT ![qreq.key].expiry =
                 IF quota[qreq.key].count = 0 THEN 0 ELSE clock + qreq.seconds]
  /\ qreq' = [qreq EXCEPT !.pc = "done", !.status = 200,
                !.headers = [limit |-> RATE_LIMIT,
                             remaining |-> IF RATE_LIMIT - qreq.newCount > 0
                                           THEN RATE_LIMIT - qreq.newCount ELSE 0,
                             reset |-> toISOString(qreq.midnight)]]
  /\ UNCHANGED <<clock, tz, qhist, analyzeVars, docVars, storageVars, factoryVars,
                 parseVars, streamVars>>

\* the rest of the handler has run and the response is out
QuotaFinish ==
  /\ qreq.pc = "done"
  /\ qreq' = IdleQuota
  /\ UNCHANGED <<clock, tz, quota, qhist, analyzeVars, docVars, storageVars,
                 factoryVars, parseVars, streamVars>>

\* an hour passes; Redis drops the keys whose expiry has been reached
Tick ==
  /\ clock < Midnight + MaxHours
  /\ clock' = clock + 1
  /\ quota' = [k \in QuotaKeys |->
                 IF quota[k].expiry # 0 /\ quota[k].expiry <= clock + 1
                 THEN NoCounter ELSE quota[k]]
  /\ UNCHANGED <<tz, qreq, qhist, analyzeVars, docVars, storageVars, factoryVars,
                 parseVars, streamVars>>

NextQuota ==
  \/ \E u \in Users : QuotaStart(u)
  \/ QuotaGet
  \/ QuotaIncr
  \/ QuotaExpire
  \/ QuotaFinish
  \/ Tick

----------------------------------------------------------------------------
(* Document metadata: POST /api/documents/add and POST /api/documents/delete *)

\* number of /api/documents requests handled at the same time
NumDocSlots == 2
\* total number of /api/documents requests in one behaviour
MaxDocRequests == 2
\* length bound of the metadata list: index.ts:204 keeps 20, the model scales it down
MAX_DOCS == 2

DocSlots == 1..NumDocSlots

\* a document built without imageData: fileData
RedisDocWithoutData(id) ==
  [id |-> id, storageProvider |-> "redis", storageKey |-> "", imageData |-> FALSE]

\* document = { id, ..., imageData: fileData, ..., storageProvider: 'redis' }
RedisDoc(id) == [id |-> id, storageProvider |-> "redis", storageKey |-> "", imageData |-> TRUE]
ExternalDoc(id, p, key) ==
  [id |-> id, storageProvider |-> p, storageKey |-> key, imageData |-> FALSE]
NoDoc == [id |-> 0, storageProvider |-> "redis", storageKey |-> "", imageData |-> FALSE]

\* Lists found in Redis when the server starts: empty, or written by the add
\* endpoint of this release (inline documents) and of the releases that sent
\* PDFs to the external backend.
StoredLists ==
  { <<>>,
    <<RedisDoc(101)>>,
    <<ExternalDoc(102, "s3", "k1"), RedisDoc(101)>>,
    <<ExternalDoc(103, "postgresql", "k2"), ExternalDoc(102, "s3", "k1")>> }

IdleDoc == [pc |-> "idle", op |-> "none", id |-> 0, documents |-> <<>>,
            document |-> NoDoc, status |-> 0,
            backendOk |-> FALSE, adapterRaised |-> FALSE, adapterCode |-> "",
            wrote |-> FALSE, readAt |-> 0]

\* a post with no document
DocsEmpty ==
  /\ docs = <<>>
  /\ store = [p \in Providers |-> {}]
  /\ provider = "none"
  /\ dhist = [requests |-> 0, nextId |-> 1, writes |-> 0]

\* a server that takes no document request: no invocation of a handler exists
DocsAtRest ==
  /\ DocsEmpty
  /\ dh = <<>>

\* a server that takes document requests: every invocation is still to start
DocsReady ==
  /\ DocsEmpty
  /\ dh = [d \in DocSlots |-> IdleDoc]

InitDocs ==
  /\ docs \in StoredLists
  /\ store \in { [p \in Providers |-> {}],
                 [p \in Providers |-> IF p = "s3" THEN {"k1"} ELSE {"k2"}] }
  /\ provider \in Providers \cup {"none"}
  /\ dh = [d \in DocSlots |-> IdleDoc]
  /\ dhist = [requests |-> 0, nextId |-> 1, writes |-> 0]

\* documents.find(doc => doc.id === id)
Find(documents, id) ==
  IF \E i \in 1..Len(documents) : documents[i].id = id
  THEN documents[CHOOSE i \in 1..Len(documents) :
                   /\ documents[i].id = id
                   /\ \A j \in 1..(i - 1) : documents[j].id # id]
  ELSE NoDoc

\* documents.filter(doc => doc.id !== id)
Filter(documents, id) == SelectSeq(documents, LAMBDA doc : doc.id # id)

\* documents.unshift(document) without the pop that follows it
UnshiftUnbounded(documents, document) == <<document>> \o documents

\* documents.unshift(document); if (documents.length > 20) documents.pop()
Unshift(documents, document) ==
  LET longer == <<document>> \o documents IN
  IF Len(longer) > MAX_DOCS THEN SubSeq(longer, 1, Len(longer) - 1) ELSE longer

\* StorageFactory.getAdapter().delete(storageKey): the outcomes of the configured
\* adapter.  S3 deletes an absent key without error; PostgreSQL raises NOT_FOUND
\* when no row matched; either raises DELETE_FAILED when the command fails.
AdapterDelete(key) ==
  IF provider = "none"
  THEN {[ok |-> FALSE, code |-> "CONFIGURATION_ERROR", after |-> store]}
  ELSE {[ok |-> o.ok, code |-> o.code, after |-> [store EXCEPT ![provider] = o.after]] :
          o \in DeleteOutcomes(provider, TRUE, store[provider], key)}

DocRespond(r, code) == [r EXCEPT !.pc = "done", !.status = code]

DocRequested(d, op, id) ==
  [IdleDoc EXCEPT !.op = op, !.id = id]

\* ids a client may send; 0 stands for a body without id
RequestIds == {0, 1, 101, 102, 103}

\* router.post('/api/documents/delete'): up to the first await
DeleteStart(d) ==
  /\ dh[d].pc \in {"idle", "done"}
  /\ dhist.requests < MaxDocRequests
  /\ \E postId \in BOOLEAN, id \in RequestIds :
       LET r == DocRequested(d, "delete", id) IN
       dh' = [dh EXCEPT ![d] =
                IF ~postId \/ id = 0 THEN DocRespond(r, 400)
                ELSE [r EXCEPT !.pc = "del_get"]]
  /\ dhist' = [dhist EXCEPT !.requests = @ + 1]
  /\ UNCHANGED <<docs, store, provider, notDocVars>>

\* const existing = await redis.get(key); documents.find(...)
DeleteGet(d) ==
  /\ dh[d].pc = "del_get"
  /\ \/ dh' = [dh EXCEPT ![d] = DocRespond(@, 500)]
     \/ LET document == Find(docs, dh[d].id)
            r == [dh[d] EXCEPT !.documents = docs, !.document = document,
                               !.readAt = dhist.writes] IN
        dh' = [dh EXCEPT ![d] =
                 IF document = NoDoc THEN DocRespond(r, 404)
                 ELSE IF document.storageProvider # "redis" /\ document.storageKey # ""
                      THEN [r EXCEPT !.pc = "del_adapter"]
                      ELSE [r EXCEPT !.pc = "del_set"]]
  /\ UNCHANGED <<docs, store, provider, dhist, notDocVars>>

\* a delete handler whose inner catch logs the adapter's error and goes on
DeleteAdapterSwallows(d) ==
  /\ dh[d].pc = "del_adapter"
  /\ \E o \in AdapterDelete(dh[d].document.storageKey) :
       /\ store' = o.after
       /\ dh' = [dh EXCEPT ![d] =
                   [@ EXCEPT !.pc = "del_set", !.backendOk = o.ok,
                             !.adapterRaised = ~o.ok]]
  /\ UNCHANGED <<docs, provider, dhist, notDocVars>>

\* try { StorageFactory.getAdapter(); await storageAdapter.delete(storageKey) }
\* catch (deleteError) { res.status(500); return }
DeleteAdapter(d) ==
  /\ dh[d].pc = "del_adapter"
  /\ \E o \in AdapterDelete(dh[d].document.storageKey) :
       /\ store' = o.after
       /\ dh' = [dh EXCEPT ![d] =
                   IF o.ok THEN [@ EXCEPT !.pc = "del_set", !.backendOk = TRUE]
                   ELSE DocRespond([@ EXCEPT !.adapterRaised = TRUE,
                                             !.adapterCode = o.code], 500)]
  /\ UNCHANGED <<docs, provider, dhist, notDocVars>>

\* filtered = documents.filter(...); await redis.set(key, filtered); res.json
DeleteSet(d) ==
  /\ dh[d].pc = "del_set"
  /\ \/ /\ dh' = [dh EXCEPT ![d] = DocRespond(@, 500)]
        /\ UNCHANGED <<docs, dhist>>
     \/ /\ docs' = Filter(dh[d].documents, dh[d].id)
        /\ dh' = [dh EXCEPT ![d] = DocRespond([@ EXCEPT !.wrote = TRUE], 200)]
        /\ dhist' = [dhist EXCEPT !.writes = @ + 1]
  /\ UNCHANGED <<store, provider, notDocVars>>

\* an upload that goes through the limiter of the analysis endpoint first
AddStartThroughLimiter(d) ==
  /\ dh[d].pc \in {"idle", "done"}
  /\ dhist.requests < MaxDocRequests
  /\ \E postId \in BOOLEAN, complete \in BOOLEAN, small \in BOOLEAN :
       LET r == DocRequested(d, "add", dhist.nextId) IN
       dh' = [dh EXCEPT ![d] =
                IF ~postId \/ ~complete \/ ~small THEN DocRespond(r, 400)
                ELSE IF OverLimit(rlCount["alice"]) THEN DocRespond(r, 429)
                ELSE [r EXCEPT !.pc = "add_get",
                               !.document = RedisDoc(dhist.nextId)]]
  /\ dhist' = [dhist EXCEPT !.requests = @ + 1, !.nextId = @ + 1]
  /\ UNCHANGED <<docs, store, provider, notDocVars>>

\* router.post('/api/documents/add'): validation, then getCurrentUsername
AddStart(d) ==
  /\ dh[d].pc \in {"idle", "done"}
  /\ dhist.requests < MaxDocRequests
  /\ \E postId \in BOOLEAN, complete \in BOOLEAN, small \in BOOLEAN :
       LET r == DocRequested(d, "add", dhist.nextId) IN
       dh' = [dh EXCEPT ![d] =
                IF ~postId \/ ~complete \/ ~small THEN DocRespond(r, 400)
                ELSE [r EXCEPT !.pc = "add_get",
                               !.document = RedisDoc(dhist.nextId)]]
  /\ dhist' = [dhist EXCEPT !.requests = @ + 1, !.nextId = @ + 1]
  /\ UNCHANGED <<docs, store, provider, notDocVars>>

\* await reddit.getCurrentUsername(); existing = await redis.get(key);
\* documents.unshift(document); if (documents.length > 20) documents.pop()
AddGet(d) ==
  /\ dh[d].pc = "add_get"
  /\ \/ dh' = [dh EXCEPT ![d] = DocRespond(@, 500)]
     \/ dh' = [dh EXCEPT ![d] =
                 [@ EXCEPT !.pc = "add_set",
                           !.documents = Unshift(docs, dh[d].document),
                           !.readAt = dhist.writes]]
  /\ UNCHANGED <<docs, store, provider, dhist, notDocVars>>

\* await redis.set(key, JSON.stringify(documents)); res.json
AddSet(d) ==
  /\ dh[d].pc = "add_set"
  /\ \/ /\ dh' = [dh EXCEPT ![d] = DocRespond(@, 500)]
        /\ UNCHANGED <<docs, dhist>>
     \/ /\ docs' = dh[d].documents
        /\ dh' = [dh EXCEPT ![d] = DocRespond([@ EXCEPT !.wrote = TRUE], 200)]
        /\ dhist' = [dhist EXCEPT !.writes = @ + 1]
  /\ UNCHANGED <<store, provider, notDocVars>>

NextDocs ==
  \E d \in DocSlots :
    \/ DeleteStart(d)
    \/ DeleteGet(d)
    \/ DeleteAdapter(d)
    \/ DeleteSet(d)
    \/ AddStart(d)
    \/ AddGet(d)
    \/ AddSet(d)

----------------------------------------------------------------------------
(* Streaming: GET /api/documents/stream/:storageKey and getDocument *)

\* number of /api/documents/stream requests handled at the same time
NumStreamSlots == 2
\* total number of /api/documents/stream requests in one behaviour
MaxStreamRequests == 3

StreamSlots == 1..NumStreamSlots

\* req.params.storageKey: "" stands for a missing parameter, "k9" is a key that
\* no list and no backend holds
StreamKeys == StorageKeys \cup {"", "k9"}

\* accessed_at TIMESTAMP, access_count INTEGER DEFAULT 0
NoRow == [access_count |-> 0, accessed_at |-> 0]

IdleStream ==
  [pc |-> "idle", postId |-> FALSE, storageKey |-> "", read |-> FALSE, document |-> NoDoc,
   status |-> 0, calls |-> 0, payload |-> FALSE]

\* no row has been read yet
AuditAtRest ==
  /\ audit = [k \in StorageKeys |-> NoRow]
  /\ shist = [requests |-> 0, now |-> 0, returned |-> [k \in StorageKeys |-> 0]]

\* a server that takes no stream request: no invocation of the handler exists
StreamAtRest ==
  /\ AuditAtRest
  /\ sh = <<>>

\* a server that takes stream requests: every invocation is still to start
StreamReady ==
  /\ AuditAtRest
  /\ sh = [s \in StreamSlots |-> IdleStream]

\* documents.find(doc => doc.storageKey === storageKey)
FindByKey(documents, storageKey) ==
  IF \E i \in 1..Len(documents) : documents[i].storageKey = storageKey
  THEN documents[CHOOSE i \in 1..Len(documents) :
                   /\ documents[i].storageKey = storageKey
                   /\ \A j \in 1..(i - 1) : documents[j].storageKey # storageKey]
  ELSE NoDoc

StreamRespond(r, code) == [r EXCEPT !.pc = "done", !.status = code]

\* router.get('/api/documents/stream/:storageKey'): up to the first await
StreamStart(s) ==
  /\ sh[s].pc \in {"idle", "done"}
  /\ shist.requests < MaxStreamRequests
  /\ \E postId \in BOOLEAN, storageKey \in StreamKeys :
       LET r == [IdleStream EXCEPT !.postId = postId, !.storageKey = storageKey] IN
       sh' = [sh EXCEPT ![s] =
                IF ~postId THEN StreamRespond(r, 401)
                ELSE IF storageKey = "" THEN StreamRespond(r, 400)
                ELSE [r EXCEPT !.pc = "st_get"]]
  /\ shist' = [shist EXCEPT !.requests = @ + 1]
  /\ UNCHANGED <<audit, analyzeVars, docVars, storageVars, factoryVars, parseVars, quotaVars>>

\* the rest of the handler up to the call of getDocument, given the document found
StreamFound(r, document, checked) ==
  IF document = NoDoc THEN StreamRespond(r, 404)
  ELSE IF checked /\ document.storageProvider # "postgresql" THEN StreamRespond(r, 400)
  ELSE IF provider # "postgresql" THEN StreamRespond(r, 500)
  ELSE [r EXCEPT !.pc = "st_select", !.calls = @ + 1]

\* a handler that does not look at document.storageProvider
StreamGetAnyProvider(s) ==
  /\ sh[s].pc = "st_get"
  /\ \/ sh' = [sh EXCEPT ![s] = StreamRespond(@, 500)]
     \/ LET document == FindByKey(docs, sh[s].storageKey)
            r == [sh[s] EXCEPT !.read = TRUE, !.document = document]
        IN sh' = [sh EXCEPT ![s] = StreamFound(r, document, FALSE)]
  /\ UNCHANGED <<audit, shist, analyzeVars, docVars, storageVars, factoryVars, parseVars,
                 quotaVars>>

\* existing = await redis.get(key); documents.find(...); the provider check;
\* StorageFactory.getAdapter() and the test for getDocument: getAdapter throws
\* when no backend is configured, the S3 adapter has no getDocument
StreamGet(s) ==
  /\ sh[s].pc = "st_get"
  /\ \/ sh' = [sh EXCEPT ![s] = StreamRespond(@, 500)]
     \/ LET document == FindByKey(docs, sh[s].storageKey)
            r == [sh[s] EXCEPT !.read = TRUE, !.document = document]
        IN sh' = [sh EXCEPT ![s] = StreamFound(r, document, TRUE)]
  /\ UNCHANGED <<audit, shist, analyzeVars, docVars, storageVars, factoryVars, parseVars,
                 quotaVars>>

\* getDocument: the adapter is not initialised or the SELECT fails
\* (StorageError, answered with 500), or the SELECT returns no row (null,
\* answered with 404), or it returns the row
GetDocumentSelect(s) ==
  /\ sh[s].pc = "st_select"
  /\ \/ sh' = [sh EXCEPT ![s] = StreamRespond(@, 500)]
     \/ sh' = [sh EXCEPT ![s] =
                 IF sh[s].storageKey \in store["postgresql"]
                 THEN [@ EXCEPT !.pc = "st_update"]
                 ELSE StreamRespond(@, 404)]
  /\ shist' = [shist EXCEPT !.now = @ + 1]
  /\ UNCHANGED <<audit, analyzeVars, docVars, storageVars, factoryVars, parseVars, quotaVars>>

\* a getDocument that returns the row without the UPDATE
GetDocumentNoAudit(s) ==
  /\ sh[s].pc = "st_update"
  /\ sh' = [sh EXCEPT ![s] = StreamRespond([@ EXCEPT !.payload = TRUE], 200)]
  /\ shist' = [shist EXCEPT !.now = @ + 1, !.returned[sh[s].storageKey] = @ + 1]
  /\ UNCHANGED <<audit, analyzeVars, docVars, storageVars, factoryVars, parseVars, quotaVars>>

\* UPDATE document_storage SET accessed_at = NOW(), access_count = access_count + 1
\* WHERE storage_key = $1; return the row selected; res.send(documentData.buffer).
\* The UPDATE changes the row if it is still there; when it fails getDocument
\* raises DOWNLOAD_FAILED.
GetDocumentUpdate(s) ==
  /\ sh[s].pc = "st_update"
  /\ LET k == sh[s].storageKey IN
     \/ /\ sh' = [sh EXCEPT ![s] = StreamRespond(@, 500)]
        /\ shist' = [shist EXCEPT !.now = @ + 1]
        /\ UNCHANGED audit
     \/ /\ audit' = IF k \in store["postgresql"]
                     THEN [audit EXCEPT ![k] = [access_count |-> @.access_count + 1,
                                                accessed_at |-> shist.now + 1]]
                     ELSE audit
        /\ sh' = [sh EXCEPT ![s] = StreamRespond([@ EXCEPT !.payload = TRUE], 200)]
        /\ shist' = [shist EXCEPT !.now = @ + 1, !.returned[k] = @ + 1]
  /\ UNCHANGED <<analyzeVars, docVars, storageVars, factoryVars, parseVars, quotaVars>>

\* DELETE FROM document_storage WHERE storage_key = $1, sent by another caller
RowDeleted(k) ==
  /\ k \in store["postgresql"]
  /\ store' = [store EXCEPT !["postgresql"] = @ \ {k}]
  /\ audit' = [audit EXCEPT ![k] = NoRow]
  /\ UNCHANGED <<sh, shist, docs, provider, dh, dhist, analyzeVars, storageVars,
                 factoryVars, parseVars, quotaVars>>

NextStream ==
  \/ \E s \in StreamSlots :
       \/ StreamStart(s)
       \/ StreamGet(s)
       \/ GetDocumentSelect(s)
       \/ GetDocumentUpdate(s)
  \/ \E k \in StorageKeys : RowDeleted(k)

InitDocuments ==
  /\ InitAnalyze
  /\ InitDocs
  /\ StorageAtRest
  /\ FactoryAtRest
  /\ ParseAtRest
  /\ QuotaAtRest
  /\ StreamAtRest

SpecDocs == InitDocuments /\ [][NextDocs]_vars

\* Requests on one post handled one after another: a request arrives only when
\* no handler is between its first await and its response.
DocsIdle == \A d \in DocSlots : dh[d].pc \in {"idle", "done"}

NextDocsSeq ==
  \/ DocsIdle /\ DeleteStart(1)
  \/ DocsIdle /\ AddStart(1)
  \/ DeleteGet(1)
  \/ DeleteAdapter(1)
  \/ DeleteSet(1)
  \/ AddGet(1)
  \/ AddSet(1)

SpecDocsSeq == InitDocuments /\ [][NextDocsSeq]_vars

\* the adapters used on their own, by any caller
InitAdapters ==
  /\ InitAnalyze
  /\ DocsAtRest
  /\ InitStorage
  /\ FactoryAtRest
  /\ ParseAtRest
  /\ QuotaAtRest
  /\ StreamAtRest

SpecStorage == InitAdapters /\ [][NextStorage]_vars

\* stream requests on a post whose list and backends were filled earlier
InitStream ==
  /\ InitAnalyze
  /\ InitDocs
  /\ StorageAtRest
  /\ FactoryAtRest
  /\ ParseAtRest
  /\ QuotaAtRest
  /\ StreamReady

SpecStream == InitStream /\ [][NextStream]_vars


----------------------------------------------------------------------------
(* Specifications of the analysis endpoint *)

Step(s, texts, errors, faults) ==
  \/ RlGet(s, faults) \/ RlIncr(s, faults) \/ RlExpire(s, faults)
  \/ CacheGet(s, faults) \/ GetModel(s, faults) \/ Generate(s, texts, errors)
  \/ Backoff(s) \/ CacheSet(s, faults) \/ CacheExpire(s, faults) \/ Finish(s)

Environment == TempSetKey \/ \E k \in Hashes : CacheTtlElapsed(k)

\* Concurrent requests: any slot may start while others are in flight.  The
\* interleavings are explored with a working Redis, for one identity and one
\* body (the case of requests racing on one counter and one cache key), over one
\* retryable and one non-retryable failure, two model answers and one unusable
\* answer.
ConcUsers == {"alice"}
ConcBodies == {b \in Bodies : b.fileName = <<"a", ".", "p", "n", "g">>}
ConcTexts == {t \in ModelTexts : t.description \in {<<"Receipt">>, <<"Invoice", "<BEL>">>}}
ConcErrors == {e \in ApiErrors : e.kind \in {"timeout", "http400"}}

Next ==
  \/ \E s \in Slots : \/ Start(s, ConcUsers, ConcBodies, MaxConcRequests)
                      \/ Step(s, ConcTexts, ConcErrors, {})
  \/ Environment

Init ==
  /\ InitAnalyze
  /\ DocsAtRest
  /\ StorageAtRest
  /\ FactoryAtRest
  /\ ParseAtRest
  /\ QuotaAtRest
  /\ StreamAtRest

Spec == Init /\ [][Next]_vars

\* Sequential requests: a request starts only when no other is in flight; every
\* body, model answer, failure of the model and failure of Redis is explored.
StartAlone(s) ==
  (\A t \in Slots : req[t].pc = "idle") /\ Start(s, Users, Bodies, MaxRequests)

NextSeq ==
  \/ StartAlone(1)
  \/ Step(1, ModelTexts, ApiErrors, RedisErrors)
  \/ Environment

SpecSeq == Init /\ [][NextSeq]_vars

\* Uploads while analysis requests are served: one analysis request at a time,
\* over the inputs of the concurrent case and with Redis failures, next to the
\* add handler.
NextUpload ==
  \/ Start(1, ConcUsers, ConcBodies, MaxConcRequests)
  \/ Step(1, ConcTexts, ConcErrors, RedisErrors)
  \/ TempSetKey
  \/ AddStart(1)
  \/ AddGet(1)
  \/ AddSet(1)

InitUpload ==
  /\ InitAnalyze
  /\ DocsReady
  /\ StorageAtRest
  /\ FactoryAtRest
  /\ ParseAtRest
  /\ QuotaAtRest
  /\ StreamAtRest

SpecUpload == InitUpload /\ [][NextUpload]_vars

\* analyzeDocument as a function of the AI call's answer and the file name
InitParse ==
  /\ InitAnalyze
  /\ DocsAtRest
  /\ StorageAtRest
  /\ FactoryAtRest
  /\ pin \in ParseInputs
  /\ pout = NoOutput
  /\ QuotaAtRest
  /\ StreamAtRest

SpecParse == InitParse /\ [][NextParse]_vars

\* the quota section on a server in any of the time zones, from a few hours
\* before a UTC midnight to a few hours after it
InitQuota ==
  /\ InitAnalyze
  /\ StreamAtRest
  /\ DocsAtRest
  /\ StorageAtRest
  /\ FactoryAtRest
  /\ pin = NoInput
  /\ pout = NoOutput
  /\ clock = Midnight - MaxHours
  /\ tz \in TimeZones
  /\ quota = [k \in QuotaKeys |-> NoCounter]
  /\ qreq = IdleQuota
  /\ qhist = [admitted |-> [w \in Users \X Dates |-> 0],
              rejected |-> [w \in Users \X Dates |-> 0],
              started |-> 0]

SpecQuota == InitQuota /\ [][NextQuota]_vars

\* Concurrent requests whose AI calls answer in time or lose against the timer,
\* with the abandoned calls settling at any later time
RaceTexts == {t \in ConcTexts : t.description = <<"Receipt">>}
RaceErrors == {e \in ApiErrors : e.kind = "timeout"}
\* what an abandoned call can still fail with
LateErrors == {e \in ApiErrors : e.kind = "http500"}

NextRace ==
  \/ \E s \in Slots : \/ Start(s, ConcUsers, ConcBodies, MaxConcRequests)
                      \/ Step(s, RaceTexts, RaceErrors, {})
                      \/ LateResolve(s, RaceTexts, LateErrors)
  \/ TempSetKey

SpecRace == Init /\ [][NextRace]_vars

\* Concurrent requests for the same bytes, answered by the model with a receipt
\* or with a summary that quotes the fallback's sentence, or timing out
SameTexts == {t \in ModelTexts : t.description \in {<<"Receipt">>, <<"Blank", "form">>}}

NextSame ==
  \/ \E s \in Slots : \/ Start(s, ConcUsers, ConcBodies, MaxConcRequests)
                      \/ Step(s, SameTexts, RaceErrors, {})
  \/ Environment

SpecSame == Init /\ [][NextSame]_vars

\* Two identities sending the same bytes: alice sends them as a.png without
\* data-URI prefix, bob as b.pdf behind a prefix and with a line break in the
\* base64 text
SharedBytes == "ABC"
BodiesOf(u) ==
  {b \in Bodies : /\ DecodeBase64(b.fileData.payload) = SharedBytes
                   /\ (b.fileData.prefix = NoPrefix) = (u = "alice")}

NextShare ==
  \/ Start(1, {"alice"}, BodiesOf("alice"), MaxConcRequests)
  \/ Start(2, {"bob"}, BodiesOf("bob"), MaxConcRequests)
  \/ \E s \in Slots : Step(s, SameTexts, RaceErrors, {})
  \/ Environment

SpecShare == Init /\ [][NextShare]_vars

\* StorageFactory called in any order, and the adapters it hands out used
SpecFactory == Init /\ [][NextFactory]_vars

----------------------------------------------------------------------------
(* Properties of POST /api/analyze *)

Done(s) == req[s].pc = "done"
Fallback(s) ==
  createFallbackResponse(req[s].body.fileName,
                         detectFileType(req[s].body.fileData, req[s].body.fileType))
Min(a, b) == IF a <= b THEN a ELSE b

\* C1 (cache idempotence): once a request for some bytes has completed with a
\* result that is no fallback, a later request for the same bytes (sequential,
\* within the TTL, admitted) returns that same result, calls neither the AI
\* client nor generateContent, and writes nothing to the cache.
C1_CacheIdempotence ==
  \A s \in Slots :
    (Done(s) /\ req[s].status = 200 /\ obs[s].prior # NoResult) =>
      /\ req[s].result = obs[s].prior
      /\ obs[s].invoked = 0
      /\ obs[s].calls = 0
      /\ obs[s].cacheWrites = 0

\* C1, for first results that the endpoint's own test does not take for a fallback
C1_IdempotentWhenCached ==
  \A s \in Slots :
    (Done(s) /\ req[s].status = 200 /\ obs[s].prior # NoResult
       /\ ~isFallback(obs[s].prior)) =>
      /\ req[s].result = obs[s].prior
      /\ obs[s].invoked = 0
      /\ obs[s].calls = 0
      /\ obs[s].cacheWrites = 0

\* what createFallbackResponse returns for the file names of the requests
FallbackResponses ==
  {createFallbackResponse(b.fileName, t) : b \in Bodies, t \in {"image", "pdf"}}

\* C2 (fallback non-caching): no cache entry holds a result made by
\* createFallbackResponse; and as long as no AI call has succeeded, the cache is
\* empty and every request answered 200 has invoked the AI client itself.
C2_FallbackNeverCached ==
  /\ \A k \in Hashes :
       /\ hist.cacheSrc[k] # "fallback"
       /\ cache[k] \notin FallbackResponses
  /\ ~hist.aiSucceeded =>
       /\ \A k \in Hashes : cache[k] = NoResult
       /\ \A s \in Slots : (Done(s) /\ req[s].status = 200) =>
            obs[s].invoked = 1 /\ obs[s].src = "fallback"

C2_Witness ==
  /\ ~hist.aiSucceeded
  /\ hist.nChecked["alice"] >= 2
  /\ Done(1) /\ req[1].status = 200 /\ req[1].user = "alice"
  /\ obs[1].src = "fallback" /\ obs[1].calls >= 1

\* C3 (rate-limit boundary, sequential requests, working Redis): of the requests
\* of one identity the first RATE_LIMIT are admitted and consume one unit each,
\* whatever they return, and every later one is rejected with 429; identities
\* do not share a counter.
C3_RateLimitBoundary ==
  ~hist.redisFault =>
    \A u \in Users :
      /\ rlCount[u] + Cardinality({s \in Slots : req[s].pc = "rl_incr" /\ req[s].user = u})
           = Min(hist.nChecked[u], RATE_LIMIT)
      /\ \A s \in Slots :
           (Done(s) /\ obs[s].checked /\ req[s].user = u) =>
             (req[s].status = 429 <=> hist.nChecked[u] > RATE_LIMIT)

C3_Witness ==
  /\ ~hist.redisFault
  /\ hist.nChecked["alice"] = RATE_LIMIT + 1
  /\ rlCount["alice"] = RATE_LIMIT
  /\ Done(1) /\ req[1].user = "bob" /\ req[1].status = 200
  /\ obs[1].src = "fallback"

C5_CounterWithinLimit == \A u \in Users : rlCount[u] <= RATE_LIMIT

Schedule(n) == [k \in 1..n |-> 1000 * (2 ^ (k - 1))]

\* failures that every reading classifies as transient
TransientKinds == {"timeout", "connreset", "connrefused", "http503", "http429"}

C8_ParseFailureNotRetried ==
  \A s \in Slots :
    /\ obs[s].lastErr = "parse" =>
         /\ ~obs[s].retryable
         /\ Done(s) /\ req[s].status = 200
         /\ obs[s].src = "fallback" /\ req[s].result = Fallback(s)
         /\ obs[s].calls = req[s].retryCount + 1
         /\ Len(obs[s].waits) = req[s].retryCount
    /\ \A text \in ModelTexts :
         (obs[s].src = "model" /\ req[s].result = parseGeminiResponse(text).value) =>
           text.json /\ text.fields = {"description", "summary"}

C8_Witness ==
  \E s \in Slots :
    /\ Done(s) /\ obs[s].lastErr = "parse" /\ obs[s].calls = 1
    /\ req[s].retryCount = 0 /\ req[s].result = Fallback(s)

ProviderKinds == {e.kind : e \in ApiErrors}

----------------------------------------------------------------------------
(* Properties of POST /api/documents/delete *)

Deleting(d) == dh[d].op = "delete"

\* C10: delete safety.  A delete request writes the metadata list only when the
\* document is stored inline in Redis or the adapter's delete has returned
\* without raising; a request whose adapter delete raised never writes the
\* list, answers 500, and, as long as no other request has written the list
\* since it was read, the list is still the one read and still holds the entry.
C10_DeleteSafety ==
  \A d \in DocSlots :
    Deleting(d) =>
      /\ dh[d].wrote => (dh[d].document.imageData \/ dh[d].backendOk)
      /\ dh[d].pc = "del_set" => (dh[d].document.imageData \/ dh[d].backendOk)
      /\ dh[d].adapterRaised =>
           /\ ~dh[d].wrote
           /\ dh[d].pc = "done"
           /\ dh[d].status = 500
           /\ dhist.writes = dh[d].readAt =>
                /\ docs = dh[d].documents
                /\ Find(docs, dh[d].id) = dh[d].document

\* one delete answered 500 after the adapter raised with its entry still
\* listed, and another delete removed an external entry after the adapter
\* succeeded
C10_Witness ==
  \E d, e \in DocSlots :
    /\ Deleting(d) /\ dh[d].pc = "done" /\ dh[d].adapterRaised
    /\ dh[d].status = 500
    /\ Find(docs, dh[d].id) = dh[d].document
    /\ Deleting(e) /\ dh[e].pc = "done" /\ dh[e].wrote /\ dh[e].backendOk
    /\ dh[e].status = 200
    /\ ~dh[e].document.imageData
    /\ Find(docs, dh[e].id) = NoDoc

----------------------------------------------------------------------------
(* Properties of the storage adapters *)

\* the latest adapter operation ran on a configured adapter whose backend answered
Answered(op) ==
  /\ sres.op = op
  /\ adapters[sres.provider].configured
  /\ ~sres.outcome.infra

\* C11 (storage round-trip): on each backend, getUrl of a key that upload
\* returned succeeds, and getUrl of a key whose delete has succeeded raises
\* NOT_FOUND.
C11_StorageRoundTrip ==
  Answered("getUrl") =>
    /\ sres.was = "returned" => sres.outcome.ok
    /\ sres.was = "deleted" => (~sres.outcome.ok /\ sres.outcome.code = "NOT_FOUND")

\* C11 on the PostgreSQL adapter alone
C11_RoundTripPostgreSQL ==
  (Answered("getUrl") /\ sres.provider = "postgresql") =>
    /\ sres.was = "returned" => sres.outcome.ok
    /\ sres.was = "deleted" => (~sres.outcome.ok /\ sres.outcome.code = "NOT_FOUND")

\* codes the adapters may raise for each operation
CodesOf(op) ==
  CASE op = "upload" -> {"UPLOAD_FAILED"}
    [] op = "getUrl" -> {"DOWNLOAD_FAILED", "NOT_FOUND"}
    [] op = "delete" -> {"DELETE_FAILED", "NOT_FOUND"}
    [] OTHER -> {}

\* C14 (typed storage errors): a failed upload, getUrl or delete raises a
\* StorageError; its code is CONFIGURATION_ERROR exactly when the adapter is not
\* configured, and otherwise one of the codes of the failed operation.
C14_TypedStorageErrors ==
  (sres.op # "none" /\ ~sres.outcome.ok) =>
    /\ sres.outcome.typed
    /\ sres.outcome.code \in
         {"UPLOAD_FAILED", "DOWNLOAD_FAILED", "DELETE_FAILED", "NOT_FOUND",
          "CONFIGURATION_ERROR", "SIZE_LIMIT_EXCEEDED"}
    /\ IF adapters[sres.provider].configured
       THEN sres.outcome.code \in CodesOf(sres.op)
       ELSE sres.outcome.code = "CONFIGURATION_ERROR"

C14_Witness ==
  /\ sres.op = "delete" /\ sres.provider = "s3"
  /\ ~sres.outcome.ok /\ sres.outcome.infra
  /\ sres.outcome.code = "DELETE_FAILED"
  /\ sres.was = "returned"

----------------------------------------------------------------------------
(* Properties of StorageFactory *)

Resolved == fres.op = "getAdapter" /\ fres.ok

\* C12 (singleton resolution): since the last reset() at most one adapter has
\* been constructed, and every successful getAdapter call returned that one
\* instance, whatever configuration the call passed.
C12_SingletonResolution ==
  /\ fhist.built <= 1
  /\ Resolved =>
       /\ fres.instance = fhist.first
       /\ fres.instance = factory.instance
       /\ fhist.built = 1

C12_Witness ==
  /\ Resolved /\ ~fres.fresh
  /\ loadConfiguration(fres.settings) # factory.config
  /\ fres.settings.provider = "postgresql"
  /\ fres.instance = fhist.first /\ fres.instance.provider = "s3"

\* the settings carry every field the selected backend requires
Complete(settings) ==
  LET prov == IF settings.source = "env" /\ settings.provider = "" THEN "s3"
              ELSE settings.provider IN
  \/ /\ prov = "s3"
     /\ settings.accessKeyId # <<>> /\ settings.secretAccessKey # <<>>
     /\ settings.bucket # ""
  \/ /\ prov = "postgresql"
     /\ settings.connectionString # <<>> /\ settings.serverBaseUrl # ""

\* C13 (fail-fast configuration): every getAdapter call returns a configured
\* adapter or raises CONFIGURATION_ERROR; a call that resolves the
\* configuration succeeds exactly when the settings are complete for a provider
\* 's3' or 'postgresql'; the factory never keeps an adapter that is not
\* configured, and no adapter handed out raises CONFIGURATION_ERROR when used.
C13_FailFastConfiguration ==
  /\ fres.op = "getAdapter" =>
       /\ IF fres.ok THEN fres.instance # NoInstance /\ fres.instance.configured
          ELSE fres.code = "CONFIGURATION_ERROR"
       /\ fres.fresh => (fres.ok <=> Complete(fres.settings))
  /\ factory.instance # NoInstance => factory.instance.configured
  /\ sres.op # "none" => sres.outcome.code # "CONFIGURATION_ERROR"

C13_Witness ==
  /\ fres.op = "getAdapter" /\ ~fres.ok /\ fres.fresh
  /\ fres.settings.provider = "s3" /\ fres.settings.secretAccessKey = <<>>
  /\ fres.settings.accessKeyId # <<>>
  /\ factory.config.set /\ factory.instance = NoInstance
  /\ sres.op = "upload" /\ sres.outcome.ok

\* every credential value a configuration may carry
Credentials ==
  UNION {{st.accessKeyId, st.secretAccessKey, st.connectionString} : st \in Settings}
    \ {<<>>}

CredentialFree(message) ==
  \A i \in 1..Len(message) :
    /\ message[i].kind \in {"text", "name", "provider"}
    /\ \A c \in Credentials : ~Includes(message[i].value, c)
    /\ message[i].kind = "provider" => message[i].text = factory.config.provider

\* C15: the message of a StorageError raised by StorageFactory or by an adapter
\* it handed out is made of constant text, names of missing settings and the
\* provider name only, and carries no credential value.
C15_NoCredentialInMessage ==
  /\ CredentialFree(fres.message)
  /\ CredentialFree(sres.outcome.message)

C15_Witness ==
  /\ fres.op = "getAdapter" /\ ~fres.ok
  /\ fres.settings.accessKeyId = KeyIdChars
  /\ fres.settings.secretAccessKey = <<>>
  /\ fres.message = <<Text("Missing required S3 configuration: "),
                      Name("AWS_SECRET_ACCESS_KEY")>>

\* characters of the secret that a masked value shows
Shown(out) == Cardinality({i \in 1..Len(out) : out[i] \notin {"...", "***MASKED***"}})

Hides(out, secret) ==
  secret # <<>> => (~Includes(out, secret) /\ Shown(out) < Len(secret))

\* C16 (masked diagnostics): getConfig() never shows a complete secret: the
\* secret access key is fully masked, and of an access key id or a connection
\* string of any length at least one character stays hidden.
C16_MaskedDiagnostics ==
  (fres.op = "getConfig" /\ factory.config.set) =>
    /\ fres.masked.hasS3 =>
         /\ fres.masked.s3.secretAccessKey = Masked
         /\ Hides(fres.masked.s3.accessKeyId, factory.config.s3.accessKeyId)
    /\ fres.masked.hasPostgreSQL =>
         Hides(fres.masked.postgresql.connectionString,
               factory.config.postgresql.connectionString)

\* C16 for secrets of more than MASK_MIN characters, or fewer
C16_MaskedUnlessEight ==
  (fres.op = "getConfig" /\ factory.config.set) =>
    /\ fres.masked.hasS3 =>
         /\ fres.masked.s3.secretAccessKey = Masked
         /\ Len(factory.config.s3.accessKeyId) # MASK_MIN =>
              Hides(fres.masked.s3.accessKeyId, factory.config.s3.accessKeyId)
    /\ fres.masked.hasPostgreSQL =>
         (Len(factory.config.postgresql.connectionString) # MASK_MIN =>
            Hides(fres.masked.postgresql.connectionString,
                  factory.config.postgresql.connectionString))

----------------------------------------------------------------------------
(* Properties of POST /api/documents/add *)

Adding(d) == dh[d].op = "add"

\* C17 (upload is independent of analysis): a step of the add handler leaves the
\* analysis cache, the rate-limit counters and the state of the AI client
\* untouched, and an add request ends in 200 with the list written, in 400
\* before anything was read, or in 500 after a failed Redis or Reddit call:
\* never in a status of the analysis endpoint.
C17_UploadIndependentOfAnalysis ==
  /\ [](\A d \in DocSlots :
          (Adding(d) /\ dh[d].pc = "done") =>
            /\ dh[d].status \in {200, 400, 500}
            /\ dh[d].status = 200 <=> dh[d].wrote
            /\ dh[d].status = 400 => dh[d].documents = <<>>)
  /\ [][(\E d \in DocSlots : dh'[d] # dh[d] /\ Adding(d)') => UNCHANGED analyzeVars]_vars

C17_Witness ==
  \E d \in DocSlots :
    /\ Adding(d) /\ dh[d].pc = "done" /\ dh[d].status = 200
    /\ Find(docs, dh[d].id) = dh[d].document
    /\ req[1].status = 429
    /\ rlCount["alice"] >= RATE_LIMIT

----------------------------------------------------------------------------
(* Properties of parseGeminiResponse and createFallbackResponse *)

\* C18 (validator truncation order): for every model response with both fields
\* present, the returned description is the first 100 characters of the sanitized
\* description (control characters removed first, the cut made afterwards), and the
\* returned summary the first 500 characters of the sanitized summary.
C18_ValidatorTruncationOrder ==
  pout.from = "model" =>
    /\ pout.description = Substring0(sanitizeText(pin.text.description), DESC_MAX)
    /\ pout.summary = Substring0(sanitizeText(pin.text.summary), SUMMARY_MAX)

\* What the code does instead: it cuts first and sanitizes the cut, so the result
\* is the sanitized prefix and can be shorter than the cap although enough
\* characters remain.
C18_SanitizedPrefix ==
  pout.from = "model" =>
    /\ pout.description = sanitizeText(Substring0(pin.text.description, DESC_MAX))
    /\ pout.summary = sanitizeText(Substring0(pin.text.summary, SUMMARY_MAX))

HasControl(text) == \E i \in 1..Len(text) : text[i] \in ControlSyms

WithinCaps(result) ==
  /\ Len(result.description) <= DESC_MAX
  /\ Len(result.summary) <= SUMMARY_MAX
  /\ ~HasControl(result.description)
  /\ ~HasControl(result.summary)

\* C19 (result length caps): every result of analyzeDocument, from the model or
\* from createFallbackResponse and for every file name, has a description of at
\* most 100 characters, a summary of at most 500, and no control character other
\* than newline and tab.
C19_ResultLengthCaps == pout.from # "none" => WithinCaps(pout)

\* The same for the results that come from the model alone.
C19_ModelResultCaps == pout.from = "model" => WithinCaps(pout)

----------------------------------------------------------------------------
(* The race of the AI call against the timer *)

\* the locals of the handlers, the Redis keys and the calls made so far
Outcome(s) ==
  <<req, rlCount, rlTtl, cache, cacheTtl,
    obs[s].calls, obs[s].cacheWrites, obs[s].waits, obs[s].src>>

\* C20 (timeout race): once the timer has won for an attempt, a later resolution
\* of that attempt's generateContent call, success or failure, is discarded: the
\* step in which it arrives changes no request's result or position, writes no
\* cache entry and starts no retry or further AI call; and a request never makes
\* more than MAX_RETRIES + 1 AI calls, however many of them were abandoned.
C20_TimeoutRace ==
  /\ [][\A s \in Slots : obs'[s].late > obs[s].late => Outcome(s)' = Outcome(s)]_vars
  /\ [](\A s \in Slots : /\ obs[s].calls <= MAX_RETRIES + 1
                         /\ obs[s].abandoned + obs[s].late <= obs[s].calls)

\* the timer won every attempt of a request, the fallback was returned and not
\* cached, and afterwards one of the abandoned calls settled
C20_Witness ==
  \E s \in Slots :
    /\ obs[s].late > 0
    /\ req[s].pc = "done"
    /\ req[s].status = 200
    /\ obs[s].src = "fallback"
    /\ obs[s].calls = MAX_RETRIES + 1
    /\ req[s].result = createFallbackResponse(req[s].body.fileName,
                          detectFileType(req[s].body.fileData, req[s].body.fileType))
    /\ cache[cacheKeyOf(req[s].body)] = NoResult

----------------------------------------------------------------------------
(* The expired timer *)

\* the fallback of the request in slot s
FallbackOf(s) ==
  createFallbackResponse(req[s].body.fileName,
                         detectFileType(req[s].body.fileData, req[s].body.fileType))

----------------------------------------------------------------------------
(* Order of the steps of one /api/analyze request *)

\* C22 (ordering within a request): the quota check and the increment come before
\* the cache lookup, the lookup before the AI call, the AI call before the cache
\* write, the cache write before the response; a cache write happens only after
\* an AI call of the same request returned a result that is no fallback, and
\* never once the response has been sent.
C22_StepOrder ==
  /\ [](\A s \in Slots :
          /\ obs[s].cacheReads > 0 => obs[s].checked /\ obs[s].incrs = 1
          /\ obs[s].invoked > 0 => obs[s].cacheReads = 1
          /\ obs[s].calls > 0 => obs[s].invoked = 1
          /\ obs[s].cacheWrites > 0 =>
               /\ obs[s].calls > 0
               /\ obs[s].src = "model"
               /\ req[s].result # FallbackOf(s)
               /\ obs[s].cacheWrites = 1)
  /\ [][\A s \in Slots :
          obs'[s].cacheWrites > obs[s].cacheWrites =>
            /\ req[s].pc = "cache_set"
            /\ req'[s].pc # "done"
            /\ req[s].status = 0]_vars

\* a request that went through all the steps: checked, counted, missed the cache,
\* called the model, wrote the cache and answered
C22_Witness ==
  \E s \in Slots :
    /\ req[s].pc = "done"
    /\ req[s].status = 200
    /\ obs[s].checked
    /\ obs[s].incrs = 1
    /\ obs[s].cacheReads = 1
    /\ obs[s].calls > 1
    /\ obs[s].cacheWrites = 1
    /\ cache[cacheKeyOf(req[s].body)] = req[s].result

----------------------------------------------------------------------------
(* Write-through of model results *)

\* C23 (write-through): whenever analyzeDocument returns a validated result of
\* the model on a cache miss, the endpoint writes it to the cache before it
\* answers; and the endpoint's fallback test is true of a result exactly when
\* createFallbackResponse produced it.
C23_WriteThrough ==
  \A s \in Slots :
    (req[s].pc = "done" /\ req[s].status = 200 /\ obs[s].src \in {"model", "fallback"}) =>
      /\ isFallback(req[s].result) <=> obs[s].src = "fallback"
      /\ obs[s].src = "model" => obs[s].cacheWrites = 1

----------------------------------------------------------------------------
(* Concurrent requests for the same bytes *)

\* what parseGeminiResponse makes of the answers of the model
ModelResults == {parseGeminiResponse(t).value : t \in {u \in ModelTexts : parseGeminiResponse(u).ok}}

\* request s missed the cache and was answered with a result of the model
MissedAndAnalyzed(s) ==
  /\ req[s].pc = "done"
  /\ req[s].status = 200
  /\ obs[s].invoked = 1
  /\ obs[s].src = "model"

SameContent(s, t) ==
  /\ s # t
  /\ MissedAndAnalyzed(s)
  /\ MissedAndAnalyzed(t)
  /\ cacheKeyOf(req[s].body) = cacheKeyOf(req[t].body)

\* the cache holds results of the model whole, and never a fallback
NoFallbackNoMixture ==
  /\ \A k \in Hashes : cache[k] \in ModelResults \cup {NoResult}
  /\ \A k \in Hashes : \A b \in Bodies : \A t \in {"image", "pdf"} :
        cache[k] # createFallbackResponse(b.fileName, t)

\* C24 (concurrent identical content): two requests for the same bytes that both
\* miss the cache both invoke the AI client and each returns a result of the
\* model; when both have completed with results that are no fallbacks, the entry
\* under the cache key is the result of one of the two (until its expiry removes
\* it); and in no state does the cache hold a fallback or a mixture of the fields
\* of two results.
C24_ConcurrentSameContent ==
  /\ NoFallbackNoMixture
  /\ \A s, t \in Slots :
       SameContent(s, t) =>
         LET k == cacheKeyOf(req[s].body) IN
         /\ obs[s].calls >= 1 /\ obs[t].calls >= 1
         /\ req[s].result \in ModelResults /\ req[t].result \in ModelResults
         /\ \/ cache[k] \in {req[s].result, req[t].result}
            \/ cache[k] = NoResult /\ hist.cacheSrc[k] = "none" /\ obs[s].cacheWrites = 1

\* The same, for results of the model that the endpoint's phrase test does not
\* take for fallbacks.
C24_SameContentWhenCached ==
  /\ NoFallbackNoMixture
  /\ \A s, t \in Slots :
       (SameContent(s, t) /\ ~isFallback(req[s].result) /\ ~isFallback(req[t].result)) =>
         LET k == cacheKeyOf(req[s].body) IN
         /\ obs[s].calls >= 1 /\ obs[t].calls >= 1
         /\ obs[s].cacheWrites = 1 /\ obs[t].cacheWrites = 1
         /\ req[s].result \in ModelResults /\ req[t].result \in ModelResults
         /\ \/ cache[k] \in {req[s].result, req[t].result}
            \/ cache[k] = NoResult /\ hist.cacheSrc[k] = "none"

----------------------------------------------------------------------------
(* Expiry of cache entries *)

\* C25 (cache TTL): in no reachable state, the state between the redis.set and
\* the redis.expire of a write and the state after a failed redis.expire
\* included, does an entry exist under analysis:{md5} without an expiry.
C25_CacheEntryHasTtl == \A k \in Hashes : cache[k] # NoResult => cacheTtl[k]

\* The same, looked at only when no request is between its redis.set and the
\* end of its redis.expire and no Redis command has failed.
C25_TtlAfterCompletedWrite ==
  (~hist.redisFault /\ \A s \in Slots : req[s].pc # "cache_expire") =>
    \A k \in Hashes : cache[k] # NoResult => cacheTtl[k]

----------------------------------------------------------------------------
(* The quota window *)

\* C26 (the quota window is the UTC calendar day): the counter a request reads and
\* increments is the one of its identity and of the UTC date on which the request
\* was made, so no request touches the counter of another day; a request is
\* rejected only when RATE_LIMIT requests of its identity were admitted on its
\* own UTC date, so an identity that exhausted its quota on day D is admitted
\* again on its first request of day D+1.
C26_UtcDayWindow ==
  /\ [](qreq.pc # "idle" =>
          /\ qreq.key[1] = qreq.user
          /\ qreq.key[2] = toISOString(qreq.startedAt).date
          /\ qreq.status = 429 => qhist.admitted[Window(qreq)] >= RATE_LIMIT
          /\ qhist.admitted[Window(qreq)] = 0 => qreq.status # 429)
  /\ [][\A k \in QuotaKeys :
          quota'[k].count > quota[k].count =>
            /\ k = <<qreq.user, toISOString(qreq.startedAt).date>>
            /\ quota'[k].count = quota[k].count + 1]_vars

\* an identity was rejected on day D and its first request of day D+1 is admitted
C26_Witness ==
  \E u \in Users : \E d \in Dates :
    /\ d + 1 \in Dates
    /\ qhist.rejected[<<u, d>>] > 0
    /\ qhist.admitted[<<u, d>>] = RATE_LIMIT
    /\ qreq.pc = "done"
    /\ qreq.status = 200
    /\ Window(qreq) = <<u, d + 1>>
    /\ qhist.admitted[<<u, d + 1>>] = 1

----------------------------------------------------------------------------
(* The rate-limit headers *)

\* the headers a response decided at instant t with `count` requests counted carries
ExpectedHeaders(status, newCount, t) ==
  [limit |-> RATE_LIMIT,
   remaining |-> IF status = 429 \/ RATE_LIMIT - newCount < 0 THEN 0
                 ELSE RATE_LIMIT - newCount,
   reset |-> toISOString(setUTCHours24(t))]

\* C27 (rate-limit headers): every response that passed or failed the quota check
\* carries X-RateLimit-Limit = limit, X-RateLimit-Remaining = max(0, limit - count
\* after this request), 0 on rejection, and X-RateLimit-Reset = the next UTC
\* midnight; a rejected response carries the reset value an admitted response
\* would carry at the same instant, whatever the server's time zone.
C27_RateLimitHeaders ==
  qreq.pc = "done" =>
    qreq.headers = ExpectedHeaders(qreq.status, qreq.newCount, qreq.decidedAt)

\* The same on a server whose local time is UTC, and for admitted requests anywhere.
C27_HeadersUtcOrAdmitted ==
  (qreq.pc = "done" /\ (tz = 0 \/ qreq.status = 200)) =>
    qreq.headers = ExpectedHeaders(qreq.status, qreq.newCount, qreq.decidedAt)

(* Storage retries *)

\* the last operation was an upload that reached retryOperation on S3
S3UploadTried ==
  sres.op = "upload" /\ sres.provider = "s3" /\ sres.outcome.attempts > 0

\* C28: S3StorageAdapter.upload re-attempts the PutObject only after a transient
\* network error: an attempt that fails with a non-retryable error (access
\* denied, invalid bucket) is the last one, and when it is the first attempt
\* UPLOAD_FAILED is raised after exactly one attempt and without any backoff delay.
C28_RetryOnlyTransient ==
  S3UploadTried =>
    LET o == sres.outcome
    IN /\ \A i \in 1..Len(o.tried) : o.tried[i] = "denied" => i = Len(o.tried)
       /\ (o.tried[1] = "denied") =>
            (~o.ok /\ o.code = "UPLOAD_FAILED" /\ o.attempts = 1 /\ o.delays = <<>>)

\* C29: an S3 upload makes at most 3 PutObject attempts, the same number as the
\* AI client (MAX_RETRIES + 1), and waits backoffMs(0) = 1000 ms and
\* backoffMs(1) = 2000 ms between them, as the AI client does; when every attempt
\* fails with a network error it has made 3 attempts, waited 1000 ms and 2000 ms,
\* and raised UPLOAD_FAILED: the loop is bounded, so the operation ends.
C29_UploadRetryBound ==
  S3UploadTried =>
    LET o == sres.outcome
    IN /\ o.attempts = Len(o.tried)
       /\ o.attempts \in 1..(MAX_RETRIES + 1)
       /\ o.delays = [i \in 1..(o.attempts - 1) |-> backoffMs(i - 1)]
       /\ (\A i \in 1..Len(o.tried) : o.tried[i] = "network") =>
            /\ ~o.ok /\ o.typed /\ o.code = "UPLOAD_FAILED"
            /\ o.attempts = 3
            /\ o.delays = <<1000, 2000>>
            /\ o.after = store[sres.provider]

\* an S3 upload whose every PutObject attempt failed with a network error
C29_Witness ==
  /\ S3UploadTried
  /\ sres.outcome.tried = [i \in 1..RETRY_ATTEMPTS |-> "network"]
  /\ ~sres.outcome.ok

(* The bounded metadata list *)

\* ids of the documents stored before the server started; a request's document
\* takes its id and its timestamp from Date.now() when the request arrives
StoredIds == {101, 102, 103}

\* document a has a later timestamp than document b
Newer(a, b) ==
  IF (a.id \in StoredIds) = (b.id \in StoredIds) THEN a.id > b.id
  ELSE b.id \in StoredIds

NewestFirst(documents) ==
  \A i, j \in 1..Len(documents) : i < j => Newer(documents[i], documents[j])

OneOfKeyAndData(doc) ==
  IF doc.storageProvider = "redis" THEN doc.imageData /\ doc.storageKey = ""
  ELSE ~doc.imageData /\ doc.storageKey # ""

\* C31: every entry of a post's metadata list has exactly one of storageKey and
\* imageData populated: 'redis' entries carry imageData and no storageKey,
\* 's3' and 'postgresql' entries carry storageKey and no imageData; so does the
\* list every handler holds between its read and its write.
C31_DocumentInvariant ==
  /\ \A i \in 1..Len(docs) : OneOfKeyAndData(docs[i])
  /\ \A d \in DocSlots :
       /\ \A i \in 1..Len(dh[d].documents) : OneOfKeyAndData(dh[d].documents[i])
       /\ (dh[d].op = "add" /\ dh[d].wrote) =>
            (dh[d].document.storageProvider = "redis" /\ dh[d].document.imageData)

\* an add has written its inline document in front of an entry stored in
\* PostgreSQL by an earlier release
C31_Witness ==
  /\ Len(docs) = 2
  /\ docs[1].storageProvider = "redis" /\ docs[1].id \notin StoredIds
  /\ docs[2].storageProvider = "postgresql"
  /\ \E d \in DocSlots : dh[d].op = "add" /\ dh[d].wrote /\ dh[d].document = docs[1]

(* Streaming *)

\* the document the handler found is an entry of the post's list, has the
\* storage key asked for, and is stored in PostgreSQL
MayStream(r) ==
  /\ r.postId /\ r.read
  /\ \E i \in 1..Len(docs) : docs[i] = r.document
  /\ r.document.storageKey = r.storageKey
  /\ r.document.storageProvider = "postgresql"

\* C32: the stream handler calls getDocument, and returns a payload, only for a
\* request with a postId whose storage key is that of a document of the post's
\* list stored in 'postgresql'; without postId it answers 401, for a key of no
\* document of the list 404, for a document of another provider (or a missing
\* key) 400, each time without calling getDocument and without a payload; and
\* an access counter changes only by a request that may stream (or when the
\* row is deleted).
C32_StreamAuthorization ==
  /\ [](\A s \in StreamSlots :
         LET r == sh[s] IN
         /\ (r.calls > 0 \/ r.payload) => MayStream(r)
         /\ r.payload => (r.calls = 1 /\ r.status = 200)
         /\ r.pc = "done" =>
              /\ ~r.postId => (r.status = 401 /\ r.calls = 0)
              /\ (r.postId /\ r.storageKey = "") => (r.status = 400 /\ r.calls = 0)
              /\ (r.read /\ r.document = NoDoc) => (r.status = 404 /\ r.calls = 0)
              /\ (r.read /\ r.document # NoDoc /\ r.document.storageProvider # "postgresql")
                   => (r.status = 400 /\ r.calls = 0))
  /\ [][\A k \in StorageKeys :
          audit'[k] # audit[k] =>
            \/ k \in store["postgresql"] /\ k \notin store'["postgresql"]
            \/ \E s \in StreamSlots : sh[s].storageKey = k /\ MayStream(sh[s])
                                         /\ sh'[s].payload]_vars

\* a request for the key of a PostgreSQL document of the list has been answered
\* with the payload, and one for the key of an S3 document of the list with 400
C32_Witness ==
  \E s, t \in StreamSlots :
    /\ sh[s].payload /\ sh[s].status = 200 /\ sh[s].storageKey = "k2"
    /\ sh[t].pc = "done" /\ sh[t].status = 400 /\ sh[t].storageKey = "k1"
    /\ sh[t].document.storageProvider = "s3"

AttemptsMade(s) ==
  IF obs[s].invoked = 0 THEN 0
  ELSE IF req[s].pc \in {"get_model", "generate"} THEN req[s].retryCount
  ELSE req[s].retryCount + 1

\* the records that carry an attempt number, an elapsed time and an outcome
AttemptRecords(log) ==
  SelectSeq(log, LAMBDA e : /\ e.fields \cap {"retryCount", "attempt"} # {}
                            /\ "durationMs" \in e.fields
                            /\ \/ "success" \in e.fields
                               \/ e.level \in {"ERROR", "WARN"})

\* the records that carry the retryCount of an attempt and say how it ended
OutcomeRecords(log) ==
  SelectSeq(log, LAMBDA e : "retryCount" \in e.fields)

\* C34: every attempt of an AI call, the first try and each retry, appends one
\* log record that carries the attempt number, the elapsed time of the attempt
\* and its outcome: a request that has finished n attempts has n such records,
\* numbered in attempt order.
C34_PerAttemptLogRecord ==
  \A s \in Slots :
    LET records == AttemptRecords(Console(obs[s].log)) IN
    /\ Len(records) = AttemptsMade(s)
    /\ \A i \in 1..Len(records) : records[i].number = i - 1

\* what the log does hold: one record per finished attempt with its retryCount
\* and its outcome, in attempt order, none of them with an elapsed time; and
\* the only record with a duration is the one analyzeDocument writes on return
C34_OutcomeRecordsOnly ==
  \A s \in Slots :
    LET records == OutcomeRecords(Console(obs[s].log)) IN
    /\ Len(records) = AttemptsMade(s)
    /\ \A i \in 1..Len(records) :
         /\ records[i].number = i - 1
         /\ "durationMs" \notin records[i].fields
         /\ records[i].level \in {"INFO", "ERROR"}
    /\ \A i \in 1..Len(obs[s].log) :
         "durationMs" \in Console(obs[s].log)[i].fields =>
           /\ i = Len(obs[s].log) /\ obs[s].src # "none"
           /\ Console(obs[s].log)[i] = PerformanceEntry
    /\ CatalogueDistinct

(* Quota accounting *)

C35_WitnessRejected ==
  \E s \in Slots :
    /\ req[s].pc = "done" /\ req[s].status = 400 /\ ~req[s].body.fileData.present
    /\ obs[s].checked /\ obs[s].incrs = 1 /\ rlCount[req[s].user] >= 1

(* The cache key *)

BytesOf(b) == DecodeBase64(b.fileData.payload)

\* C36: the cache key depends only on the decoded bytes: requests in flight
\* whose fileData decode to the same bytes have the same key, whatever their
\* prefix, fileName, fileType or identity; a cache hit answers 200 with the
\* entry under analysis:{md5 of the bytes} unchanged and without a call of the
\* model; and a request writes the cache only under the key of its bytes.
C36_KeyFromBytesOnly ==
  /\ [](\A s, t \in Slots :
         (ValidBody(req[s].body) /\ ValidBody(req[t].body)) =>
           ((BytesOf(req[s].body) = BytesOf(req[t].body))
              = (cacheKeyOf(req[s].body) = cacheKeyOf(req[t].body))))
  /\ [][\A s \in Slots :
          /\ (req[s].pc = "cache_get" /\ obs'[s].src = "cache") =>
               /\ req'[s].result = cache[md5(BytesOf(req[s].body))]
               /\ req'[s].status = 200 /\ req'[s].pc = "done"
               /\ obs'[s].calls = 0
          /\ (req[s].pc = "cache_set" /\ req'[s].pc = "cache_expire") =>
               cache' = [cache EXCEPT ![md5(BytesOf(req[s].body))] = req[s].result]]_vars

\* bob's b.pdf was answered from the cache with the result the model gave for
\* alice's a.png
C36_Witness ==
  /\ req[1].pc = "done" /\ req[1].user = "alice" /\ obs[1].src = "model"
  /\ obs[1].cacheWrites = 1
  /\ req[2].pc = "done" /\ req[2].user = "bob" /\ obs[2].src = "cache"
  /\ req[2].status = 200 /\ req[2].result = req[1].result
  /\ req[1].body.fileName # req[2].body.fileName
  /\ req[1].body.fileType # req[2].body.fileType
  /\ req[1].body.fileData.prefix # req[2].body.fileData.prefix

(* Repeated deletes *)

\* the handler of slot d is about to call the adapter of the document's backend
\* for an object that this backend does not hold (any more)
ObjectAbsent(d) ==
  /\ dh[d].pc = "del_adapter"
  /\ provider = dh[d].document.storageProvider
  /\ dh[d].document.storageKey \notin store[provider]

\* C37: a delete request for a document whose backend object is already absent
\* goes on to remove the metadata entry, on either backend, unless the
\* backend's command itself fails: the absence of the object never makes the
\* request fail, so a repeated delete succeeds once Redis and the backend answer.
C37_DeleteRetrySafe ==
  [][\A d \in DocSlots :
       (ObjectAbsent(d) /\ dh'[d].pc # "del_adapter"
          /\ dh'[d].adapterCode # "DELETE_FAILED") =>
         (dh'[d].pc = "del_set" /\ dh'[d].backendOk)]_vars

\* what the PostgreSQL backend does instead: while the row is absent, every
\* delete request for the entry is answered 500 and leaves the list as it is
C37_AbsentRowBlocksDelete ==
  [][\A d \in DocSlots :
       (ObjectAbsent(d) /\ dh'[d].pc # "del_adapter" /\ provider = "postgresql") =>
         (dh'[d].pc = "done" /\ dh'[d].status = 500 /\ docs' = docs /\ store' = store)]_vars

(* Overlapping writers of the metadata list *)

InList(id) == \E i \in 1..Len(docs) : docs[i].id = id

\* a delete request for id has been answered 200
DeleteSucceeded(id) ==
  \E e \in DocSlots : dh[e].op = "delete" /\ dh[e].status = 200 /\ dh[e].id = id

\* C38: once all add and delete requests of a post have completed, the list
\* contains the document of every add answered 200, unless the list is full
\* (the document may have been evicted by the bound) or a delete of it was
\* answered 200; and it contains no document whose delete was answered 200.
C38_NoLostUpdate ==
  DocsIdle =>
    \A d \in DocSlots :
      /\ (dh[d].op = "add" /\ dh[d].status = 200) =>
           \/ InList(dh[d].document.id)
           \/ Len(docs) = MAX_DOCS
           \/ DeleteSucceeded(dh[d].document.id)
      /\ (dh[d].op = "delete" /\ dh[d].status = 200) => ~InList(dh[d].id)

\* what holds without atomicity: a request that wrote the list wrote the list it
\* had read, changed by its own document or id only; when no other request
\* wrote between its read and its write, nothing is lost
C38_WritesWhatItRead ==
  [][\A d \in DocSlots :
       /\ (dh[d].pc = "add_set" /\ dh'[d].status = 200) =>
            /\ docs' = dh[d].documents
            /\ dhist.writes = dh[d].readAt =>
                 (docs'[1] = dh[d].document
                  /\ \A i \in 1..Len(docs) : i < MAX_DOCS => docs'[i + 1] = docs[i])
       /\ (dh[d].pc = "del_set" /\ dh'[d].status = 200) =>
            /\ docs' = Filter(dh[d].documents, dh[d].id)
            /\ dhist.writes = dh[d].readAt => docs' = Filter(docs, dh[d].id)]_vars

\* a getAdapter call made while the factory holds no adapter
GetAdapterFromEmpty ==
  (factory.instance = NoInstance /\ fres'.op = "getAdapter" /\ fres' # fres) =>
    /\ fres'.fresh
    /\ factory'.config = loadConfiguration(fres'.settings)
    /\ fres'.ok <=> validateConfiguration(factory'.config).ok
    /\ Complete(fres'.settings) =>
         /\ fres'.ok /\ fres'.instance.configured
         /\ factory'.instance = fres'.instance
         /\ fres'.instance.provider = factory'.config.provider

\* only a getAdapter call gives the factory a configuration
ConfigSetByGetAdapter ==
  (factory.config = NoConfig /\ factory'.config # NoConfig) =>
    fres'.op = "getAdapter"

\* C39 (factory recovery): a getAdapter call that raised leaves no adapter in
\* the factory; whenever the factory holds no adapter, a getAdapter call
\* resolves and validates the settings it is given and, if they are complete,
\* builds the adapter and returns it; after reset() the factory holds neither
\* adapter nor configuration, getConfig() answers null, and the configuration
\* stays unset until a getAdapter call sets it.
C39_FactoryRecovery ==
  /\ [](/\ (fres.op = "getAdapter" /\ ~fres.ok) => factory.instance = NoInstance
        /\ fres.op = "reset" =>
             /\ factory.instance = NoInstance
             /\ factory.config = NoConfig
             /\ getConfig(factory.config) = NoConfig
        /\ (fres.op = "getConfig" /\ factory.config = NoConfig) =>
             fres.masked = NoConfig)
  /\ [][GetAdapterFromEmpty /\ ConfigSetByGetAdapter]_vars

\* a getAdapter call for PostgreSQL has just raised: no adapter is kept
C39_Witness ==
  /\ fres.op = "getAdapter" /\ ~fres.ok /\ fres.fresh
  /\ fres.settings.provider = "postgresql"
  /\ factory.instance = NoInstance /\ factory.config.set

\* getConfig() answers null after an adapter was used and the factory reset
C39_WitnessReset ==
  /\ fres.op = "getConfig" /\ fres.masked = NoConfig
  /\ factory.instance = NoInstance /\ factory.config = NoConfig
  /\ sres.op # "none"

====
